---- MODULE Spec2Model ----
(***************************************************************************)
(* Model of the pathway-database layer of the SBGN pathway viewer:         *)
(*   - services/pathwayService.ts : fetchSpecies, fetchPathways, the       *)
(*     per-source fetchers, mapGenesToPathways, mapGenesToPathwaysKegg     *)
(*   - components/Sidebar.tsx     : the species, pathways and highlight    *)
(*     effects, the pathway search and the two groups of the select        *)
(*   - services/dataProcessor.ts  : parseData, parseGeneIds, parseDataToMap *)
(*   - App.tsx                    : handleGenerate                         *)
(* Strings are sequences of UTF-16 code units, so that split, trim,        *)
(* replace, startsWith, join and localeCompare are computed, not assumed.  *)
(***************************************************************************)
EXTENDS Integers, Sequences, FiniteSets, TLC

VARIABLES
  \* ---- one call of fetchSpecies / fetchPathways (pathwayService.ts) ----
  fpc,        \* "idle" | "wait" | "done"
  fcall,      \* the call: [op, database, speciesId]
  fresp,      \* the answer of the source to the call's request, or NoResp
  fresult,    \* NoResult | [kind |-> "list", val |-> <<...>>] | [kind |-> "throw", ...]
  fnet,       \* URLs requested over the network, in order, over all calls
  fprev,      \* the previous completed call and its result, or NoPrev
  \* ---- one call of mapGenesToPathways / mapGenesToPathwaysKegg ----
  mpc,        \* "idle" | "reactome" | "find" | "link" | "done"
  mcall,      \* the call: [fn, speciesId, geneIds]
  mfind,      \* the per-identifier find promises of Phase 1
  mresp,      \* the answer to the POST (Reactome) or link (KEGG) request, or NoResp
  mnet,       \* requests issued, in order: [method, url, body]
  mresult,    \* NoResult | [kind |-> "set", val |-> {...}] | [kind |-> "reject"]
  \* ---- the Sidebar component (React state, timers, promises in flight) ----
  sb,         \* the component's state: a record, see SidebarInit
  timer,      \* the pending debounce timer's closure, or NoTimer
  inflight,   \* promises in flight, oldest first: species, pathways, mapping calls
  calls,      \* number of calls the Sidebar issued so far
  stale,      \* highlightedPathways holds the answer of a superseded mapping call
  app         \* App's state around handleGenerate, and its render call in flight

fvars == <<fpc, fcall, fresp, fresult, fnet, fprev>>
mvars == <<mpc, mcall, mfind, mresp, mnet, mresult>>
svars == <<sb, timer, inflight, calls, stale, app>>
vars == <<fvars, mvars, svars>>

----------------------------------------------------------------------------
(* Bounds of the model                                                     *)

\* longest catalog payload (records, lines or elements) a source answers with
MaxRecords == 2
\* most identifiers passed to one mapping call
MaxGenes == 2
\* most lines in a find or link answer
MaxLines == 2
\* most calls (fetchSpecies, fetchPathways, mapper) the Sidebar issues in one run
MaxCalls == 5
\* most pathways of a species in the pathway select
MaxPathways == 3

----------------------------------------------------------------------------
(* Strings: sequences of code units                                        *)

\* '\t', '\n', ' ', ',', '+', '_' as one-character strings
TabStr == <<9>>
NlStr == <<10>>
CommaStr == <<44>>
PlusStr == <<43>>
UnderscoreStr == <<95>>
ColonStr == <<58>>

\* String.prototype.startsWith
StartsWith(s, p) ==
  /\ Len(p) <= Len(s)
  /\ SubSeq(s, 1, Len(p)) = p

\* String.prototype.indexOf, 1-based; 0 when p does not occur in s
IndexOf(s, p) ==
  LET hits == {i \in 1..(Len(s) - Len(p) + 1) : SubSeq(s, i, i + Len(p) - 1) = p}
  IN IF hits = {} THEN 0 ELSE CHOOSE i \in hits : \A j \in hits : i <= j

\* String.prototype.replace with a string pattern: the FIRST occurrence only
ReplaceFirst(s, p, r) ==
  LET i == IndexOf(s, p)
  IN IF i = 0 THEN s
     ELSE SubSeq(s, 1, i - 1) \o r \o SubSeq(s, i + Len(p), Len(s))

\* white space as String.prototype.trim sees it (the code units used here)
IsSpace(c) == c \in {9, 10, 11, 12, 13, 32}

RECURSIVE TrimStart(_)
TrimStart(s) ==
  IF s # <<>> /\ IsSpace(Head(s)) THEN TrimStart(Tail(s)) ELSE s

RECURSIVE TrimEnd(_)
TrimEnd(s) ==
  IF s # <<>> /\ IsSpace(s[Len(s)]) THEN TrimEnd(SubSeq(s, 1, Len(s) - 1)) ELSE s

\* String.prototype.trim
Trim(s) == TrimEnd(TrimStart(s))

\* String.prototype.split with a one-character separator: ''.split(x) is ['']
RECURSIVE Split(_, _)
Split(s, sep) ==
  LET i == IndexOf(s, sep)
  IN IF i = 0 THEN <<s>>
     ELSE <<SubSeq(s, 1, i - 1)>> \o Split(SubSeq(s, i + 1, Len(s)), sep)

\* Array.prototype.join
RECURSIVE Join(_, _)
Join(parts, sep) ==
  IF parts = <<>> THEN <<>>
  ELSE IF Len(parts) = 1 THEN parts[1]
  ELSE parts[1] \o sep \o Join(Tail(parts), sep)

\* String.prototype.toLowerCase on the code units A-Z
LowerChar(c) == IF c >= 65 /\ c <= 90 THEN c + 32 ELSE c

ToLowerCase(s) == [i \in 1..Len(s) |-> LowerChar(s[i])]

\* Number.prototype.toString for the one-digit numbers the payloads carry
NumToString(n) == <<48 + n>>

\* the elements of a sequence, as a set
Range(s) == {s[i] : i \in 1..Len(s)}

\* all sequences over S of length at most n
SeqsUpTo(S, n) == UNION {[1..k -> S] : k \in 0..n}

----------------------------------------------------------------------------
(* JavaScript values of a parsed payload                                   *)

Undef == [t |-> "undefined"]
Null == [t |-> "null"]
Str(s) == [t |-> "string", v |-> s]
Num(n) == [t |-> "number", v |-> n]

\* ToBoolean: undefined, null, 0 and '' are falsy
Truthy(x) ==
  CASE x.t = "undefined" -> FALSE
    [] x.t = "null" -> FALSE
    [] x.t = "number" -> x.v # 0
    [] x.t = "string" -> x.v # <<>>
    [] OTHER -> TRUE

\* x.toString() of a number or a string
JsToString(x) == IF x.t = "number" THEN NumToString(x.v) ELSE x.v

----------------------------------------------------------------------------
(* String.prototype.localeCompare and Array.prototype.sort                 *)

\* Primary collation weight of a code unit in the default (root) collation:
\* white space < punctuation < digits < letters, letters regardless of case.
PrimaryWeight(c) ==
  CASE c >= 65 /\ c <= 90 -> 1000 + c + 32
    [] c >= 97 /\ c <= 122 -> 1000 + c
    [] c >= 48 /\ c <= 57 -> 500 + c
    [] c = 32 -> 1
    [] c = 95 -> 2
    [] c = 45 -> 3
    [] c = 44 -> 4
    [] c = 58 -> 5
    [] c = 40 -> 6
    [] c = 41 -> 7
    [] OTHER -> 100 + c

\* Tertiary weight: at equal letters, lower case sorts before upper case
TertiaryWeight(c) == IF c >= 65 /\ c <= 90 THEN 1 ELSE 0

\* lexicographic comparison of two sequences of numbers: -1, 0 or 1
RECURSIVE LexCompare(_, _)
LexCompare(a, b) ==
  IF a = <<>> /\ b = <<>> THEN 0
  ELSE IF a = <<>> THEN -1
  ELSE IF b = <<>> THEN 1
  ELSE IF Head(a) < Head(b) THEN -1
  ELSE IF Head(a) > Head(b) THEN 1
  ELSE LexCompare(Tail(a), Tail(b))

\* comparison by code unit, as the < operator on strings does
CodeUnitCompare(a, b) == LexCompare(a, b)

\* a.localeCompare(b): the primary weights of the whole strings decide; only
\* strings that are equal ignoring case are ordered by the case of their letters
LocaleCompare(a, b) ==
  LET pa == [i \in 1..Len(a) |-> PrimaryWeight(a[i])]
      pb == [i \in 1..Len(b) |-> PrimaryWeight(b[i])]
      p == LexCompare(pa, pb)
  IN IF p # 0 THEN p
     ELSE LexCompare([i \in 1..Len(a) |-> TertiaryWeight(a[i])],
                     [i \in 1..Len(b) |-> TertiaryWeight(b[i])])

\* insert x into the sorted list s after every entry that does not sort after it
RECURSIVE InsertSorted(_, _)
InsertSorted(x, s) ==
  IF s = <<>> THEN <<x>>
  ELSE IF LocaleCompare(x.displayName, Head(s).displayName) < 0 THEN <<x>> \o s
  ELSE <<Head(s)>> \o InsertSorted(x, Tail(s))

\* list.sort((a, b) => a.displayName.localeCompare(b.displayName)): a stable sort
RECURSIVE SortByDisplayName(_)
SortByDisplayName(list) ==
  IF list = <<>> THEN <<>>
  ELSE InsertSorted(list[Len(list)], SortByDisplayName(SubSeq(list, 1, Len(list) - 1)))

----------------------------------------------------------------------------
(* The sources and what they answer                                        *)

\* ALL_DATABASES of the Sidebar, the cases of the two switch statements
Databases ==
  {"Reactome", "KEGG", "MetaCyc", "SMPDB", "PANTHER", "METACROP", "Custom SBGN File"}

\* identifiers and display names the modelled payloads are built from
IdA == <<49>>
IdB == <<50>>
NameLowerA == <<97>>
NameUpperB == <<66>>
NameLowerB == <<98>>
NameUpperAb == <<65, 98>>
Ids == {IdA, IdB}
Names == {NameLowerA, NameUpperB, NameLowerB, NameUpperAb}

\* 'path:', the prefix of a KEGG pathway reference
PathPrefix == <<112, 97, 116, 104, 58>>

NoResp == [failed |-> FALSE, status |-> 0, body |-> [kind |-> "none"]]
NoResult == [kind |-> "none"]
NoPrev == [kind |-> "none"]

\* fetch() rejected: no HTTP answer at all
NetworkFailure == [failed |-> TRUE, status |-> 0, body |-> [kind |-> "none"]]

Answer(status, body) == [failed |-> FALSE, status |-> status, body |-> body]

\* Response.ok
Ok(resp) == resp.status >= 200 /\ resp.status <= 299

EmptyBody == [kind |-> "empty"]
GarbageBody == [kind |-> "garbage"]
TextBody(text) == [kind |-> "text", val |-> text]
JsonBody(val) == [kind |-> "json", val |-> val]
XmlBody(elements) == [kind |-> "xml", val |-> elements]

\* a JSON array, and a JSON object with at most the nested list PANTHER answers with
JArr(items) == [j |-> "array", items |-> items]
JObj(nested) == [j |-> "object", nested |-> nested]

\* Response.text()
TextOf(body) ==
  CASE body.kind = "text" -> body.val
    [] body.kind = "garbage" -> <<60, 33, 62>>
    [] OTHER -> <<>>

\* Response.json() resolves only for a body that is JSON
JsonParses(body) == body.kind = "json"

\* DOMParser.parseFromString never throws: a body that is not XML has no elements
XmlElements(body) == IF body.kind = "xml" THEN body.val ELSE <<>>

ListResult(list) == [kind |-> "list", val |-> list]
Throw(message) == [kind |-> "throw", message |-> message]

----------------------------------------------------------------------------
(* pathwayService.ts: the species fetchers                                 *)

\* typeof x === 'string' / 'number'
IsString(x) == x.t = "string"
IsNumber(x) == x.t = "number"

KeepReactomeSpecies(s) ==
  s # Null /\ IsString(s.displayName) /\ IsNumber(s.dbId)

fetchReactomeSpecies(resp) ==
  LET message == "Failed to fetch species from Reactome. Check network connection or API status."
  IN IF resp.failed \/ ~Ok(resp) \/ ~JsonParses(resp.body) THEN Throw(message)
     ELSE IF resp.body.val.j # "array" THEN Throw(message)
     ELSE LET kept == SelectSeq(resp.body.val.items, KeepReactomeSpecies)
              mapped == [i \in 1..Len(kept) |->
                           [id |-> NumToString(kept[i].dbId.v),
                            displayName |-> kept[i].displayName.v]]
          IN ListResult(SortByDisplayName(mapped))

\* one line of the organism list: [code, organismCode, name, ...]
KeggSpeciesOfLine(line) ==
  LET parts == Split(line, TabStr)
  IN IF Len(parts) >= 3
     THEN [t |-> "object", id |-> parts[2], displayName |-> parts[3]]
     ELSE Null

NotNull(x) == x # Null

fetchKeggSpecies(resp) ==
  LET message == "Failed to fetch species from KEGG. The CORS proxy may be down."
  IN IF resp.failed \/ ~Ok(resp) THEN Throw(message)
     ELSE LET lines == Split(Trim(TextOf(resp.body)), NlStr)
              parsed == [i \in 1..Len(lines) |-> KeggSpeciesOfLine(lines[i])]
              kept == SelectSeq(parsed, NotNull)
              mapped == [i \in 1..Len(kept) |->
                           [id |-> kept[i].id, displayName |-> kept[i].displayName]]
          IN ListResult(SortByDisplayName(mapped))

\* if (id && displayName): getAttribute gave a non-empty string for both
KeepElement(el) == Truthy(el.id) /\ Truthy(el.name)

fetchMetaCycSpecies(resp) ==
  LET message == "Failed to fetch species from MetaCyc. Check network connection or API status."
  IN IF resp.failed \/ ~Ok(resp) THEN Throw(message)
     ELSE LET kept == SelectSeq(XmlElements(resp.body), KeepElement)
              speciesList == [i \in 1..Len(kept) |->
                                [id |-> kept[i].id.v, displayName |-> kept[i].name.v]]
          IN ListResult(SortByDisplayName(speciesList))

\* Map.prototype.set on a map kept as its entries in insertion order
MapSet(entries, key, value) ==
  IF \E i \in 1..Len(entries) : entries[i].id = key
  THEN [i \in 1..Len(entries) |->
          IF entries[i].id = key THEN [id |-> key, displayName |-> value]
          ELSE entries[i]]
  ELSE Append(entries, [id |-> key, displayName |-> value])

\* data.forEach(pathway => { if (...) speciesMap.set(...) })
RECURSIVE SmpdbSpeciesMap(_, _)
SmpdbSpeciesMap(data, entries) ==
  IF data = <<>> THEN entries
  ELSE LET pathway == Head(data)
       IN SmpdbSpeciesMap(
            Tail(data),
            IF Truthy(pathway.species_taxonomy_id) /\ Truthy(pathway.species_name)
            THEN MapSet(entries, pathway.species_taxonomy_id.v, pathway.species_name.v)
            ELSE entries)

\* reading a property of null throws a TypeError
HasNull(items) == \E i \in 1..Len(items) : items[i] = Null

\* a fetcher that swallowed its errors would resolve to an empty list
NoSpeciesWhateverTheAnswer(resp) == ListResult(<<>>)

fetchSmpdbSpecies(resp) ==
  LET message == "Failed to fetch species from SMPDB. Check network connection or API status."
  IN IF resp.failed \/ ~Ok(resp) \/ ~JsonParses(resp.body) THEN Throw(message)
     ELSE IF resp.body.val.j # "array" THEN Throw(message)
     ELSE IF HasNull(resp.body.val.items) THEN Throw(message)
     ELSE ListResult(SortByDisplayName(SmpdbSpeciesMap(resp.body.val.items, <<>>)))

\* data?.search?.organism_list?.organism, data?.search?.pathway_list?.pathway
NestedList(data) == IF data.j = "object" THEN data.nested ELSE Undef

KeepPantherOrganism(o) == Truthy(o.taxon_id) /\ Truthy(o.long_name)

fetchPantherSpecies(resp) ==
  LET message == "Failed to fetch species from PANTHER. The CORS proxy may be down."
  IN IF resp.failed \/ ~Ok(resp) \/ ~JsonParses(resp.body) THEN Throw(message)
     ELSE IF NestedList(resp.body.val) = Undef THEN ListResult(<<>>)
     ELSE LET organisms == NestedList(resp.body.val).items
          IN IF HasNull(organisms) THEN Throw(message)
             ELSE LET kept == SelectSeq(organisms, KeepPantherOrganism)
                      mapped == [i \in 1..Len(kept) |->
                                   [id |-> JsToString(kept[i].taxon_id),
                                    displayName |-> kept[i].long_name.v]]
                  IN ListResult(SortByDisplayName(mapped))

metaCropSpecies ==
  <<
    \* { id: 'bdi', displayName: 'Brachypodium distachyon (Purple False Brome)' }
    [id |-> <<98, 100, 105>>,
     displayName |-> <<66, 114, 97, 99, 104, 121, 112, 111, 100, 105, 117, 109, 32, 100, 105, 115, 116, 97, 99, 104, 121, 111, 110, 32, 40, 80, 117, 114, 112, 108, 101, 32, 70, 97, 108, 115, 101, 32, 66, 114, 111, 109, 101, 41>>],
    \* { id: 'gma', displayName: 'Glycine max (Soybean)' }
    [id |-> <<103, 109, 97>>,
     displayName |-> <<71, 108, 121, 99, 105, 110, 101, 32, 109, 97, 120, 32, 40, 83, 111, 121, 98, 101, 97, 110, 41>>],
    \* { id: 'hvu', displayName: 'Hordeum vulgare (Barley)' }
    [id |-> <<104, 118, 117>>,
     displayName |-> <<72, 111, 114, 100, 101, 117, 109, 32, 118, 117, 108, 103, 97, 114, 101, 32, 40, 66, 97, 114, 108, 101, 121, 41>>],
    \* { id: 'mtr', displayName: 'Medicago truncatula (Barrel Medick)' }
    [id |-> <<109, 116, 114>>,
     displayName |-> <<77, 101, 100, 105, 99, 97, 103, 111, 32, 116, 114, 117, 110, 99, 97, 116, 117, 108, 97, 32, 40, 66, 97, 114, 114, 101, 108, 32, 77, 101, 100, 105, 99, 107, 41>>],
    \* { id: 'osa', displayName: 'Oryza sativa (Rice)' }
    [id |-> <<111, 115, 97>>,
     displayName |-> <<79, 114, 121, 122, 97, 32, 115, 97, 116, 105, 118, 97, 32, 40, 82, 105, 99, 101, 41>>],
    \* { id: 'sly', displayName: 'Solanum lycopersicum (Tomato)' }
    [id |-> <<115, 108, 121>>,
     displayName |-> <<83, 111, 108, 97, 110, 117, 109, 32, 108, 121, 99, 111, 112, 101, 114, 115, 105, 99, 117, 109, 32, 40, 84, 111, 109, 97, 116, 111, 41>>],
    \* { id: 'stu', displayName: 'Solanum tuberosum (Potato)' }
    [id |-> <<115, 116, 117>>,
     displayName |-> <<83, 111, 108, 97, 110, 117, 109, 32, 116, 117, 98, 101, 114, 111, 115, 117, 109, 32, 40, 80, 111, 116, 97, 116, 111, 41>>],
    \* { id: 'zma', displayName: 'Zea mays (Maize)' }
    [id |-> <<122, 109, 97>>,
     displayName |-> <<90, 101, 97, 32, 109, 97, 121, 115, 32, 40, 77, 97, 105, 122, 101, 41>>]
  >>

fetchMetaCropSpecies == ListResult(SortByDisplayName(metaCropSpecies))

----------------------------------------------------------------------------
(* pathwayService.ts: the pathway fetchers                                 *)

KeepReactomePathway(p) ==
  p # Null /\ IsString(p.displayName) /\ IsString(p.stId)

fetchReactomePathways(speciesId, resp) ==
  LET message == "Failed to fetch pathways from Reactome. Check network connection or API status."
  IN IF resp.failed THEN Throw(message)
     ELSE IF ~Ok(resp) THEN (IF resp.status = 404 THEN ListResult(<<>>) ELSE Throw(message))
     ELSE IF ~JsonParses(resp.body) THEN Throw(message)
     ELSE IF resp.body.val.j # "array" THEN Throw(message)
     ELSE LET kept == SelectSeq(resp.body.val.items, KeepReactomePathway)
              mapped == [i \in 1..Len(kept) |->
                           [id |-> kept[i].stId.v, displayName |-> kept[i].displayName.v]]
          IN ListResult(SortByDisplayName(mapped))

\* const [id, displayName] = line.split('\t'); if (id && displayName) ...
KeggPathwayOfLine(line) ==
  LET parts == Split(line, TabStr)
  IN IF Len(parts) >= 2 /\ parts[1] # <<>> /\ parts[2] # <<>>
     THEN [t |-> "object", id |-> ReplaceFirst(parts[1], PathPrefix, <<>>),
           displayName |-> parts[2]]
     ELSE Null

\* a fetcher that answers every response with the empty list
EmptyListWhateverTheAnswer(speciesId, resp) == ListResult(<<>>)

fetchKeggPathways(speciesId, resp) ==
  LET message == "Failed to fetch pathways from KEGG. The CORS proxy may be down."
  IN IF resp.failed \/ ~Ok(resp) THEN Throw(message)
     ELSE IF Trim(TextOf(resp.body)) = <<>> THEN ListResult(<<>>)
     ELSE LET lines == Split(Trim(TextOf(resp.body)), NlStr)
              parsed == [i \in 1..Len(lines) |-> KeggPathwayOfLine(lines[i])]
              kept == SelectSeq(parsed, NotNull)
              pathways == [i \in 1..Len(kept) |->
                             [id |-> kept[i].id, displayName |-> kept[i].displayName]]
          IN ListResult(SortByDisplayName(pathways))

fetchSmpdbPathways(speciesId, resp) ==
  LET message == "Failed to fetch pathways from SMPDB. Check network connection or API status."
      Keep(p) == /\ p.species_taxonomy_id = Str(speciesId)
                 /\ Truthy(p.smp_id)
                 /\ Truthy(p.name)
  IN IF resp.failed \/ ~Ok(resp) \/ ~JsonParses(resp.body) THEN Throw(message)
     ELSE IF resp.body.val.j # "array" THEN Throw(message)
     ELSE IF HasNull(resp.body.val.items) THEN Throw(message)
     ELSE LET kept == SelectSeq(resp.body.val.items, Keep)
              pathways == [i \in 1..Len(kept) |->
                             [id |-> kept[i].smp_id.v, displayName |-> kept[i].name.v]]
          IN ListResult(SortByDisplayName(pathways))

KeepPantherPathway(p) == Truthy(p.id) /\ Truthy(p.name)

\* a fetcher that read data.search.pathway_list.pathway without the guard: the
\* read of a property of undefined throws inside the try block
ReadsPathwayListUnguarded(speciesId, resp) ==
  IF resp.failed \/ ~Ok(resp) \/ ~JsonParses(resp.body) \/ NestedList(resp.body.val) = Undef
  THEN Throw("Failed to fetch pathways from PANTHER. The CORS proxy may be down.")
  ELSE ListResult(<<>>)

fetchPantherPathways(speciesId, resp) ==
  LET message == "Failed to fetch pathways from PANTHER. The CORS proxy may be down."
  IN IF resp.failed \/ ~Ok(resp) \/ ~JsonParses(resp.body) THEN Throw(message)
     ELSE IF NestedList(resp.body.val) = Undef THEN ListResult(<<>>)
     ELSE LET pathways == NestedList(resp.body.val).items
          IN IF HasNull(pathways) THEN Throw(message)
             ELSE LET kept == SelectSeq(pathways, KeepPantherPathway)
                      mapped == [i \in 1..Len(kept) |->
                                   [id |-> kept[i].id.v, displayName |-> kept[i].name.v]]
                  IN ListResult(SortByDisplayName(mapped))

fetchMetaCycPathways(speciesId, resp) ==
  LET message == "Failed to fetch pathways from MetaCyc. Check network connection or API status."
  IN IF resp.failed THEN Throw(message)
     ELSE IF ~Ok(resp) THEN (IF resp.status = 404 THEN ListResult(<<>>) ELSE Throw(message))
     ELSE LET kept == SelectSeq(XmlElements(resp.body), KeepElement)
              pathways == [i \in 1..Len(kept) |->
                             [id |-> kept[i].id.v, displayName |-> kept[i].name.v]]
          IN ListResult(SortByDisplayName(pathways))

commonPathways ==
  <<
    \* { name: 'Alanine Metabolism', id_part: 'alanine_metabolism' }
    [name |-> <<65, 108, 97, 110, 105, 110, 101, 32, 77, 101, 116, 97, 98, 111, 108, 105, 115, 109>>,
     id_part |-> <<97, 108, 97, 110, 105, 110, 101, 95, 109, 101, 116, 97, 98, 111, 108, 105, 115, 109>>],
    \* { name: 'Arginine and Proline Metabolism', id_part: 'arginine_proline_metabolism' }
    [name |-> <<65, 114, 103, 105, 110, 105, 110, 101, 32, 97, 110, 100, 32, 80, 114, 111, 108, 105, 110, 101, 32, 77, 101, 116, 97, 98, 111, 108, 105, 115, 109>>,
     id_part |-> <<97, 114, 103, 105, 110, 105, 110, 101, 95, 112, 114, 111, 108, 105, 110, 101, 95, 109, 101, 116, 97, 98, 111, 108, 105, 115, 109>>],
    \* { name: 'Aspartate and Glutamate Metabolism', id_part: 'aspartate_glutamate_metabolism' }
    [name |-> <<65, 115, 112, 97, 114, 116, 97, 116, 101, 32, 97, 110, 100, 32, 71, 108, 117, 116, 97, 109, 97, 116, 101, 32, 77, 101, 116, 97, 98, 111, 108, 105, 115, 109>>,
     id_part |-> <<97, 115, 112, 97, 114, 116, 97, 116, 101, 95, 103, 108, 117, 116, 97, 109, 97, 116, 101, 95, 109, 101, 116, 97, 98, 111, 108, 105, 115, 109>>],
    \* { name: 'C4-Dicarboxylic Acid Cycle', id_part: 'c4_dicarboxylic_acid_cycle' }
    [name |-> <<67, 52, 45, 68, 105, 99, 97, 114, 98, 111, 120, 121, 108, 105, 99, 32, 65, 99, 105, 100, 32, 67, 121, 99, 108, 101>>,
     id_part |-> <<99, 52, 95, 100, 105, 99, 97, 114, 98, 111, 120, 121, 108, 105, 99, 95, 97, 99, 105, 100, 95, 99, 121, 99, 108, 101>>],
    \* { name: 'Calvin Cycle', id_part: 'calvin_cycle' }
    [name |-> <<67, 97, 108, 118, 105, 110, 32, 67, 121, 99, 108, 101>>,
     id_part |-> <<99, 97, 108, 118, 105, 110, 95, 99, 121, 99, 108, 101>>],
    \* { name: 'Cysteine and Methionine Metabolism', id_part: 'cysteine_methionine_metabolism' }
    [name |-> <<67, 121, 115, 116, 101, 105, 110, 101, 32, 97, 110, 100, 32, 77, 101, 116, 104, 105, 111, 110, 105, 110, 101, 32, 77, 101, 116, 97, 98, 111, 108, 105, 115, 109>>,
     id_part |-> <<99, 121, 115, 116, 101, 105, 110, 101, 95, 109, 101, 116, 104, 105, 111, 110, 105, 110, 101, 95, 109, 101, 116, 97, 98, 111, 108, 105, 115, 109>>],
    \* { name: 'Fatty Acid Biosynthesis', id_part: 'fatty_acid_biosynthesis' }
    [name |-> <<70, 97, 116, 116, 121, 32, 65, 99, 105, 100, 32, 66, 105, 111, 115, 121, 110, 116, 104, 101, 115, 105, 115>>,
     id_part |-> <<102, 97, 116, 116, 121, 95, 97, 99, 105, 100, 95, 98, 105, 111, 115, 121, 110, 116, 104, 101, 115, 105, 115>>],
    \* { name: 'Glycolysis', id_part: 'glycolysis' }
    [name |-> <<71, 108, 121, 99, 111, 108, 121, 115, 105, 115>>,
     id_part |-> <<103, 108, 121, 99, 111, 108, 121, 115, 105, 115>>],
    \* { name: 'Glyoxylate Cycle', id_part: 'glyoxylate_cycle' }
    [name |-> <<71, 108, 121, 111, 120, 121, 108, 97, 116, 101, 32, 67, 121, 99, 108, 101>>,
     id_part |-> <<103, 108, 121, 111, 120, 121, 108, 97, 116, 101, 95, 99, 121, 99, 108, 101>>],
    \* { name: 'Histidine Metabolism', id_part: 'histidine_metabolism' }
    [name |-> <<72, 105, 115, 116, 105, 100, 105, 110, 101, 32, 77, 101, 116, 97, 98, 111, 108, 105, 115, 109>>,
     id_part |-> <<104, 105, 115, 116, 105, 100, 105, 110, 101, 95, 109, 101, 116, 97, 98, 111, 108, 105, 115, 109>>],
    \* { name: 'Photorespiration', id_part: 'photorespiration' }
    [name |-> <<80, 104, 111, 116, 111, 114, 101, 115, 112, 105, 114, 97, 116, 105, 111, 110>>,
     id_part |-> <<112, 104, 111, 116, 111, 114, 101, 115, 112, 105, 114, 97, 116, 105, 111, 110>>],
    \* { name: 'Starch Biosynthesis', id_part: 'starch_biosynthesis' }
    [name |-> <<83, 116, 97, 114, 99, 104, 32, 66, 105, 111, 115, 121, 110, 116, 104, 101, 115, 105, 115>>,
     id_part |-> <<115, 116, 97, 114, 99, 104, 95, 98, 105, 111, 115, 121, 110, 116, 104, 101, 115, 105, 115>>],
    \* { name: 'Sucrose Biosynthesis', id_part: 'sucrose_biosynthesis' }
    [name |-> <<83, 117, 99, 114, 111, 115, 101, 32, 66, 105, 111, 115, 121, 110, 116, 104, 101, 115, 105, 115>>,
     id_part |-> <<115, 117, 99, 114, 111, 115, 101, 95, 98, 105, 111, 115, 121, 110, 116, 104, 101, 115, 105, 115>>],
    \* { name: 'TCA Cycle', id_part: 'tca_cycle' }
    [name |-> <<84, 67, 65, 32, 67, 121, 99, 108, 101>>,
     id_part |-> <<116, 99, 97, 95, 99, 121, 99, 108, 101>>],
    \* { name: 'Threonine and Lysine Metabolism', id_part: 'threonine_lysine_metabolism' }
    [name |-> <<84, 104, 114, 101, 111, 110, 105, 110, 101, 32, 97, 110, 100, 32, 76, 121, 115, 105, 110, 101, 32, 77, 101, 116, 97, 98, 111, 108, 105, 115, 109>>,
     id_part |-> <<116, 104, 114, 101, 111, 110, 105, 110, 101, 95, 108, 121, 115, 105, 110, 101, 95, 109, 101, 116, 97, 98, 111, 108, 105, 115, 109>>],
    \* { name: 'Valine, Leucine, and Isoleucine Metabolism', id_part: 'valine_leucine_isoleucine_metabolism' }
    [name |-> <<86, 97, 108, 105, 110, 101, 44, 32, 76, 101, 117, 99, 105, 110, 101, 44, 32, 97, 110, 100, 32, 73, 115, 111, 108, 101, 117, 99, 105, 110, 101, 32, 77, 101, 116, 97, 98, 111, 108, 105, 115, 109>>,
     id_part |-> <<118, 97, 108, 105, 110, 101, 95, 108, 101, 117, 99, 105, 110, 101, 95, 105, 115, 111, 108, 101, 117, 99, 105, 110, 101, 95, 109, 101, 116, 97, 98, 111, 108, 105, 115, 109>>]
  >>

\* the generic pathways with the slug alone as id, the same for every species
SlugAsId(speciesId) ==
  ListResult(SortByDisplayName(
    [i \in 1..Len(commonPathways) |->
       [id |-> commonPathways[i].id_part, displayName |-> commonPathways[i].name]]))

fetchMetaCropPathways(speciesId) ==
  LET pathways == [i \in 1..Len(commonPathways) |->
                     [id |-> speciesId \o UnderscoreStr \o commonPathways[i].id_part,
                      displayName |-> commonPathways[i].name]]
  IN ListResult(SortByDisplayName(pathways))

----------------------------------------------------------------------------
(* pathwayService.ts: fetchSpecies and fetchPathways                       *)

SpeciesCall(database) == [op |-> "species", database |-> database, speciesId |-> <<>>]
PathwaysCall(database, speciesId) ==
  [op |-> "pathways", database |-> database, speciesId |-> speciesId]

NoRequest == [base |-> "", path |-> "", arg |-> <<>>]
Url(base, path, arg) == [base |-> base, path |-> path, arg |-> arg]

\* the URL the call fetches, NoRequest when it performs no network request
RequestOf(call) ==
  IF call.op = "species"
  THEN CASE call.database = "Reactome" ->
              Url("https://reactome.org/ContentService", "/data/species/all", <<>>)
         [] call.database = "KEGG" ->
              Url("https://corsproxy.io/?http://rest.kegg.jp", "/list/organism", <<>>)
         [] call.database = "MetaCyc" ->
              Url("https://corsproxy.io/?https://websvc.biocyc.org", "/dbs", <<>>)
         [] call.database = "SMPDB" ->
              Url("https://corsproxy.io/?https://smpdb.ca", "/pathways.json", <<>>)
         [] call.database = "PANTHER" ->
              Url("https://corsproxy.io/?http://pantherdb.org/services/rest",
                  "/organism/list", <<>>)
         [] OTHER -> NoRequest
  ELSE IF call.speciesId = <<>> THEN NoRequest
  ELSE CASE call.database = "Reactome" ->
              Url("https://reactome.org/ContentService", "/data/pathways/low/species/",
                  call.speciesId)
         [] call.database = "KEGG" ->
              Url("https://corsproxy.io/?http://rest.kegg.jp", "/list/pathway/",
                  call.speciesId)
         [] call.database = "SMPDB" ->
              Url("https://corsproxy.io/?https://smpdb.ca", "/pathways.json", <<>>)
         [] call.database = "PANTHER" ->
              Url("https://corsproxy.io/?http://pantherdb.org/services/rest",
                  "/pathway/pathwaysForOrganism?organism=", call.speciesId)
         [] call.database = "MetaCyc" ->
              Url("https://corsproxy.io/?https://websvc.biocyc.org", "/{speciesId}/pathways",
                  call.speciesId)
         [] OTHER -> NoRequest

\* fetchSpecies(database), given the answer to its request (if it makes one)
fetchSpecies(database, resp) ==
  CASE database = "Reactome" -> fetchReactomeSpecies(resp)
    [] database = "KEGG" -> fetchKeggSpecies(resp)
    [] database = "MetaCyc" -> fetchMetaCycSpecies(resp)
    [] database = "SMPDB" -> fetchSmpdbSpecies(resp)
    [] database = "PANTHER" -> fetchPantherSpecies(resp)
    [] database = "METACROP" -> fetchMetaCropSpecies
    [] OTHER -> ListResult(<<>>)

\* fetchPathways(database, speciesId), given the answer to its request (if any)
fetchPathways(database, speciesId, resp) ==
  IF speciesId = <<>> THEN ListResult(<<>>)
  ELSE CASE database = "Reactome" -> fetchReactomePathways(speciesId, resp)
         [] database = "KEGG" -> fetchKeggPathways(speciesId, resp)
         [] database = "SMPDB" -> fetchSmpdbPathways(speciesId, resp)
         [] database = "PANTHER" -> fetchPantherPathways(speciesId, resp)
         [] database = "MetaCyc" -> fetchMetaCycPathways(speciesId, resp)
         [] database = "METACROP" -> fetchMetaCropPathways(speciesId)
         [] OTHER -> ListResult(<<>>)

ResultOf(call, resp) ==
  IF call.op = "species" THEN fetchSpecies(call.database, resp)
  ELSE fetchPathways(call.database, call.speciesId, resp)

----------------------------------------------------------------------------
(* pathwayService.ts: mapGenesToPathways (Reactome)                        *)

SetResult(set) == [kind |-> "set", val |-> set]
Rejected == [kind |-> "reject"]
Thrown == [kind |-> "throw"]

\* the error of the try block escapes the function: its promise rejects
CatchRethrows(outcome) == IF outcome.kind = "throw" THEN Rejected ELSE outcome

\* catch (error) { console.error(...); return new Set(); }
CatchReturnsEmptySet(outcome) ==
  IF outcome.kind = "throw" THEN SetResult({}) ELSE outcome

\* the identifiers joined by '+', as the KEGG link request joins gene ids
JoinedByPlus(geneIds) == Join(geneIds, PlusStr)

\* body: geneIds.join(',')
ReactomeRequestBody(geneIds) == Join(geneIds, CommaStr)

ReactomeMappingRequest(speciesId, geneIds) ==
  [method |-> "POST",
   url |-> Url("https://reactome.org/ContentService",
               "/data/mapping/{speciesId}/identifier", speciesId),
   body |-> ReactomeRequestBody(geneIds)]

\* the try block after the fetch: the set of the stId of data.pathways
ReactomeTry(resp) ==
  IF resp.failed \/ ~Ok(resp) \/ ~JsonParses(resp.body) THEN Thrown
  ELSE LET data == resp.body.val
       IN IF data = Null THEN Thrown
          ELSE IF data.pathways = Undef THEN SetResult({})
          ELSE IF HasNull(data.pathways.items) THEN Thrown
          ELSE SetResult({data.pathways.items[i].stId.v :
                            i \in 1..Len(data.pathways.items)})

\* mapGenesToPathways, given the answer to its POST
mapGenesToPathways(resp) == CatchReturnsEmptySet(ReactomeTry(resp))

----------------------------------------------------------------------------
(* pathwayService.ts: mapGenesToPathwaysKegg                               *)

\* the characters encodeURIComponent leaves as they are
Unreserved(c) ==
  \/ c >= 65 /\ c <= 90
  \/ c >= 97 /\ c <= 122
  \/ c >= 48 /\ c <= 57
  \/ c \in {45, 95, 46, 33, 126, 42, 39, 40, 41}

HexDigit(n) == IF n < 10 THEN 48 + n ELSE 55 + n

\* encodeURIComponent on code units below 128: %XX for every other character
RECURSIVE EncodeURIComponent(_)
EncodeURIComponent(s) ==
  IF s = <<>> THEN <<>>
  ELSE (IF Unreserved(Head(s)) THEN <<Head(s)>>
        ELSE <<37, HexDigit(Head(s) \div 16), HexDigit(Head(s) % 16)>>)
       \o EncodeURIComponent(Tail(s))

KeggFindRequest(geneId) ==
  [method |-> "GET",
   url |-> Url("https://corsproxy.io/?http://rest.kegg.jp", "/find/genes/",
               EncodeURIComponent(geneId)),
   body |-> <<>>]

KeggLinkRequest(keggIdsString) ==
  [method |-> "GET",
   url |-> Url("https://corsproxy.io/?http://rest.kegg.jp", "/link/pathway/",
               keggIdsString),
   body |-> <<>>]

\* the first resolved gene id alone, as a link request per gene id would carry
FirstGeneIdAlone(keggGeneIds) == keggGeneIds[1]

\* const keggIdsString = Array.from(keggGeneIds).join('+')
keggIdsString(keggGeneIds) == Join(keggGeneIds, PlusStr)

\* a function that went on to the link request whatever was resolved
NeverReturnsEarly(keggGeneIds) == FALSE

\* if (keggGeneIds.size === 0) return new Set()
NoGenesMapped(keggGeneIds) == Len(keggGeneIds) = 0

\* a find promise: fetch(...).then(res => res.ok ? res.text() : Promise.resolve(''))
PendingFind == [state |-> "pending", ok |-> FALSE, text |-> <<>>]
RejectedFind == [state |-> "rejected", ok |-> FALSE, text |-> <<>>]
ResolvedFind(resp) ==
  [state |-> "resolved", ok |-> Ok(resp),
   text |-> IF Ok(resp) THEN TextOf(resp.body) ELSE <<>>]

\* Set.prototype.add on a set kept as its elements in insertion order
SetAdd(elements, x) ==
  IF \E i \in 1..Len(elements) : elements[i] = x THEN elements ELSE Append(elements, x)

\* a filter that kept the genes of every organism
GeneOfAnyOrganism(line, speciesId) == line # <<>>

\* line.startsWith(`${speciesId}:`)
GeneOfSpecies(line, speciesId) == StartsWith(line, speciesId \o ColonStr)

\* lines.forEach(line => { if (line.startsWith(`${speciesId}:`)) keggGeneIds.add(...) })
RECURSIVE AddGeneIdsOfLines(_, _, _)
AddGeneIdsOfLines(speciesId, lines, keggGeneIds) ==
  IF lines = <<>> THEN keggGeneIds
  ELSE AddGeneIdsOfLines(
         speciesId, Tail(lines),
         IF GeneOfSpecies(Head(lines), speciesId)
         THEN SetAdd(keggGeneIds, Split(Head(lines), TabStr)[1])
         ELSE keggGeneIds)

\* findResults.forEach(textResult => { if (textResult) { ... } })
RECURSIVE KeggGeneIds(_, _, _)
KeggGeneIds(speciesId, findResults, keggGeneIds) ==
  IF findResults = <<>> THEN keggGeneIds
  ELSE KeggGeneIds(
         speciesId, Tail(findResults),
         IF Head(findResults) # <<>>
         THEN AddGeneIdsOfLines(speciesId, Split(Trim(Head(findResults)), NlStr),
                                keggGeneIds)
         ELSE keggGeneIds)

\* the first column, not the second: parts[0]
LinkFirstColumn(line) ==
  LET parts == Split(line, TabStr)
  IN IF line # <<>> /\ Len(parts) > 1 THEN {parts[1]} ELSE {}

\* the pathway id of one line of the link answer: parts[1].replace('path:', '')
LinkPathwayIdOfLine(line) ==
  LET parts == Split(line, TabStr)
  IN IF line # <<>> /\ Len(parts) > 1
     THEN {ReplaceFirst(parts[2], PathPrefix, <<>>)}
     ELSE {}

\* linkText.trim().split('\n').forEach(...)
LinkPathwayIds(linkText) ==
  LET lines == Split(Trim(linkText), NlStr)
  IN UNION {LinkPathwayIdOfLine(lines[i]) : i \in 1..Len(lines)}

\* the try block after the link fetch
KeggLinkTry(resp) ==
  IF resp.failed THEN Thrown
  ELSE IF ~Ok(resp) THEN (IF resp.status = 404 THEN SetResult({}) ELSE Thrown)
  ELSE SetResult(LinkPathwayIds(TextOf(resp.body)))

----------------------------------------------------------------------------
(* What a source may answer: the wire formats of section 4.2               *)

NameValues == {Str(n) : n \in Names}

ReactomeSpeciesItems ==
  {Null} \cup
  [t : {"object"}, dbId : {Num(1), Num(2), Str(IdA), Undef},
   displayName : NameValues \cup {Undef}]

ReactomePathwayItems ==
  {Null} \cup
  [t : {"object"}, stId : {Str(IdA), Str(IdB), Undef},
   displayName : NameValues \cup {Undef}]

\* lines of the organism list: T-number, organism code, name (and a lineage)
KeggSpeciesLines ==
  {Join(<<<<84>>, id, n>>, TabStr) : id \in Ids, n \in Names}
  \cup {Join(<<<<84>>, IdA, NameLowerA, <<69>>>>, TabStr), Join(<<<<84>>, IdA>>, TabStr)}

\* lines of the pathway list: reference, name
KeggPathwayLines ==
  {Join(<<id, n>>, TabStr) : id \in {PathPrefix \o IdA, PathPrefix \o IdB, IdA}, n \in Names}
  \cup {IdA}

\* <ptools-db orgid name> and <Pathway ID common-name>: an absent attribute is null
XmlElementItems ==
  [t : {"element"}, id : {Str(IdA), Str(IdB), Null}, name : NameValues \cup {Null}]

SmpdbItems ==
  {Null} \cup
  [t : {"object"}, species_taxonomy_id : {Str(IdA), Str(IdB), Undef},
   species_name : {Str(NameLowerA), Str(NameUpperB)},
   smp_id : {Str(IdA), Undef},
   name : {Str(NameLowerA), Str(NameUpperB), Undef}]

PantherOrganismItems ==
  {Null} \cup
  [t : {"object"}, taxon_id : {Num(1), Str(IdA), Str(IdB), Undef},
   long_name : NameValues \cup {Undef}]

PantherPathwayItems ==
  {Null} \cup
  [t : {"object"}, id : {Str(IdA), Str(IdB), Undef}, name : NameValues \cup {Undef}]

\* a text body: its lines, each ended by a line feed
TextOfLines(lines) == Join(lines, NlStr) \o (IF lines = <<>> THEN <<>> ELSE NlStr)

\* the well-formed bodies of a 2xx answer to the call's request
Payloads(call) ==
  LET species == call.op = "species"
      db == call.database
  IN CASE db = "Reactome" ->
            {JsonBody(JObj(Undef))} \cup
            {JsonBody(JArr(items)) :
               items \in SeqsUpTo(IF species THEN ReactomeSpeciesItems
                                  ELSE ReactomePathwayItems, MaxRecords)}
       [] db = "KEGG" ->
            {TextBody(TextOfLines(lines)) :
               lines \in SeqsUpTo(IF species THEN KeggSpeciesLines
                                  ELSE KeggPathwayLines, MaxRecords)}
       [] db = "MetaCyc" ->
            {XmlBody(els) : els \in SeqsUpTo(XmlElementItems, MaxRecords)}
       [] db = "SMPDB" ->
            {JsonBody(JObj(Undef))} \cup
            {JsonBody(JArr(items)) : items \in SeqsUpTo(SmpdbItems, MaxRecords)}
       [] db = "PANTHER" ->
            {JsonBody(JObj(Undef))} \cup
            {JsonBody(JObj(JArr(items))) :
               items \in SeqsUpTo(IF species THEN PantherOrganismItems
                                  ELSE PantherPathwayItems, MaxRecords)}
       [] OTHER -> {}

\* every answer to the call's request: no answer at all, an error status, or a
\* 2xx answer with an empty, a malformed or a well-formed body
Responses(call) ==
  {NetworkFailure, Answer(404, EmptyBody), Answer(500, EmptyBody)}
  \cup {Answer(200, b) : b \in {EmptyBody, GarbageBody} \cup Payloads(call)}

SpeciesIds == {<<>>, IdA, IdB}

Calls ==
  {SpeciesCall(db) : db \in Databases}
  \cup {PathwaysCall(db, sp) : db \in Databases, sp \in SpeciesIds}

----------------------------------------------------------------------------
(* A caller of fetchSpecies / fetchPathways                                *)

NoCall == [op |-> "none", database |-> "", speciesId |-> <<>>]

FetchIdle ==
  /\ fpc = "idle"
  /\ fcall = NoCall
  /\ fresp = NoResp
  /\ fresult = NoResult
  /\ fnet = <<>>
  /\ fprev = NoPrev

\* the synchronous part of a call: up to the await of fetch(), or to the return
\* of a call that fetches nothing
StartCall(call) ==
  /\ fcall' = call
  /\ fresp' = NoResp
  /\ IF RequestOf(call) = NoRequest
     THEN /\ fresult' = ResultOf(call, NoResp)
          /\ fnet' = fnet
          /\ fpc' = "done"
     ELSE /\ fresult' = NoResult
          /\ fnet' = Append(fnet, RequestOf(call))
          /\ fpc' = "wait"

FetchCall(call) ==
  /\ fpc = "idle"
  /\ StartCall(call)
  /\ UNCHANGED <<fprev, mvars, svars>>

\* the source answers (or the network fails) and the call settles
FetchRespond(resp) ==
  /\ fpc = "wait"
  /\ fresp' = resp
  /\ fresult' = ResultOf(fcall, resp)
  /\ fpc' = "done"
  /\ UNCHANGED <<fcall, fnet, fprev, mvars, svars>>

\* the same call again, with no selection change in between
FetchAgain ==
  /\ fpc = "done"
  /\ fprev = NoPrev
  /\ fprev' = [kind |-> "call", call |-> fcall, result |-> fresult]
  /\ StartCall(fcall)
  /\ UNCHANGED <<mvars, svars>>

\* the caller goes on from the species of a source to the pathways of one
\* species of that source, as the Sidebar does: fetchSpecies(database), then
\* fetchPathways(database, speciesId)
FetchPathwaysNext(speciesId) ==
  /\ fpc = "done"
  /\ fcall.op = "species"
  /\ fprev = NoPrev
  /\ fprev' = [kind |-> "call", call |-> fcall, result |-> fresult]
  /\ StartCall(PathwaysCall(fcall.database, speciesId))
  /\ UNCHANGED <<mvars, svars>>

----------------------------------------------------------------------------
(* A caller of mapGenesToPathways / mapGenesToPathwaysKegg                 *)

\* 'hsa' and 'mmu', two KEGG organism codes
Hsa == <<104, 115, 97>>
Mmu == <<109, 109, 117>>

\* the identifiers of the caller: 'C' and 'A+'
GeneSymbols == {<<67>>, <<65, 43>>}

\* pathway ids: 'h1' and 'h2'
PwA == <<104, 49>>
PwB == <<104, 50>>

NoMapCall == [fn |-> "none", speciesId |-> <<>>, geneIds |-> <<>>]

MapCalls ==
  [fn : {"reactome", "kegg"}, speciesId : {<<>>, Hsa},
   geneIds : SeqsUpTo(GeneSymbols, MaxGenes)]

\* items of the pathways array of a mapping answer
ReactomeMappingItems == {Null} \cup [t : {"object"}, stId : {Str(PwA), Str(PwB)}]

\* every answer to the mapping POST
ReactomeMappingResponses ==
  {NetworkFailure, Answer(404, EmptyBody), Answer(500, EmptyBody),
   Answer(200, EmptyBody), Answer(200, GarbageBody),
   Answer(200, JsonBody(Null)), Answer(200, JsonBody([pathways |-> Undef]))}
  \cup {Answer(200, JsonBody([pathways |-> JArr(items)])) :
          items \in SeqsUpTo(ReactomeMappingItems, MaxLines)}

\* 'hsa:1<TAB>C', 'hsa:2<TAB>A', 'mmu:1<TAB>C': lines of a find answer
FindLineHsa1 == Hsa \o ColonStr \o IdA \o TabStr \o <<67>>
FindLineHsa2 == Hsa \o ColonStr \o IdB \o TabStr \o <<65>>
FindLineMmu1 == Mmu \o ColonStr \o IdA \o TabStr \o <<67>>

\* every answer to a find request: no answer, an error status, or a 2xx answer
\* listing genes of the active and of other organisms
FindResponses ==
  {NetworkFailure, Answer(404, EmptyBody), Answer(500, EmptyBody), Answer(200, EmptyBody)}
  \cup {Answer(200, TextBody(TextOfLines(lines))) :
          lines \in {<<FindLineHsa1>>, <<FindLineHsa2>>, <<FindLineMmu1>>,
                     <<FindLineMmu1, FindLineHsa1>>, <<FindLineHsa1, FindLineHsa2>>}}

\* lines of a link answer: gene id, pathway reference; one has no second column,
\* one has a reference without the 'path:' prefix
LinkLines ==
  {Hsa \o ColonStr \o IdA \o TabStr \o PathPrefix \o PwA,
   Hsa \o ColonStr \o IdB \o TabStr \o PathPrefix \o PwA,
   Hsa \o ColonStr \o IdA \o TabStr \o PathPrefix \o PwB,
   Hsa \o ColonStr \o IdB \o TabStr \o PwB,
   Hsa \o ColonStr \o IdB}

\* every answer to the link request
LinkResponses ==
  {NetworkFailure, Answer(404, EmptyBody), Answer(500, EmptyBody), Answer(200, EmptyBody)}
  \cup {Answer(200, TextBody(TextOfLines(lines))) : lines \in SeqsUpTo(LinkLines, MaxLines)}

\* mapGenesToPathways up to the await of its POST
MapCallReactome(call) ==
  /\ mpc = "idle"
  /\ call.fn = "reactome"
  /\ mcall' = call
  /\ mnet' = Append(mnet, ReactomeMappingRequest(call.speciesId, call.geneIds))
  /\ mpc' = "reactome"
  /\ UNCHANGED <<mfind, mresp, mresult, fvars, svars>>

\* the POST settles and mapGenesToPathways returns
MapReactomeRespond(resp) ==
  /\ mpc = "reactome"
  /\ mresp' = resp
  /\ mresult' = mapGenesToPathways(resp)
  /\ mpc' = "done"
  /\ UNCHANGED <<mcall, mfind, mnet, fvars, svars>>

\* a loop that awaited each find answer before issuing the next request
FirstFindOnly(geneIds) == <<KeggFindRequest(geneIds[1])>>

\* const findPromises = geneIds.map(geneId => fetch(.../find/genes/...)): the
\* requests issued by the map, one for each element of geneIds
findPromises(geneIds) == [i \in 1..Len(geneIds) |-> KeggFindRequest(geneIds[i])]

\* mapGenesToPathwaysKegg up to await Promise.all(findPromises): every find
\* request is issued before any answer is awaited
MapCallKegg(call) ==
  /\ mpc = "idle"
  /\ call.fn = "kegg"
  /\ mcall' = call
  /\ IF call.speciesId = <<>> \/ Len(call.geneIds) = 0
     THEN /\ mresult' = SetResult({})
          /\ mpc' = "done"
          /\ UNCHANGED <<mfind, mnet>>
     ELSE /\ mfind' = [i \in 1..Len(call.geneIds) |-> PendingFind]
          /\ mnet' = mnet \o findPromises(call.geneIds)
          /\ mpc' = "find"
          /\ UNCHANGED mresult
  /\ UNCHANGED <<mresp, fvars, svars>>

\* a find fetch rejects: Promise.all rejects at once and the catch block returns
MapFindReject(i) ==
  /\ mpc = "find"
  /\ mfind[i].state = "pending"
  /\ mfind' = [mfind EXCEPT ![i] = RejectedFind]
  /\ mresult' = CatchReturnsEmptySet(Thrown)
  /\ mpc' = "done"
  /\ UNCHANGED <<mcall, mresp, mnet, fvars, svars>>

\* a find request is answered; with the last answer Promise.all resolves and the
\* function runs on to the link request, or returns when no gene id was resolved
MapFindResolve(i, resp) ==
  /\ mpc = "find"
  /\ mfind[i].state = "pending"
  /\ ~resp.failed
  /\ LET finds == [mfind EXCEPT ![i] = ResolvedFind(resp)]
         findResults == [k \in 1..Len(finds) |-> finds[k].text]
         keggGeneIds == KeggGeneIds(mcall.speciesId, findResults, <<>>)
     IN /\ mfind' = finds
        /\ IF \E k \in 1..Len(finds) : finds[k].state = "pending"
           THEN UNCHANGED <<mpc, mnet, mresult>>
           ELSE IF NoGenesMapped(keggGeneIds)
           THEN /\ mresult' = SetResult({})
                /\ mpc' = "done"
                /\ UNCHANGED mnet
           ELSE /\ mnet' = Append(mnet, KeggLinkRequest(keggIdsString(keggGeneIds)))
                /\ mpc' = "link"
                /\ UNCHANGED mresult
  /\ UNCHANGED <<mcall, mresp, fvars, svars>>

\* the link request settles and mapGenesToPathwaysKegg returns
MapLinkRespond(resp) ==
  /\ mpc = "link"
  /\ mresp' = resp
  /\ mresult' = CatchReturnsEmptySet(KeggLinkTry(resp))
  /\ mpc' = "done"
  /\ UNCHANGED <<mcall, mfind, mnet, fvars, svars>>

----------------------------------------------------------------------------
(* dataProcessor.ts: parseData and parseGeneIds                            *)

\* String.prototype.includes
Includes(s, p) == IndexOf(s, p) # 0

\* cells.map(c => c.trim())
MapTrim(cells) == [i \in 1..Len(cells) |-> Trim(cells[i])]

\* line => line.trim() !== ''
NonBlank(line) == Trim(line) # <<>>

parseData(data) ==
  LET lines == SelectSeq(Split(Trim(data), NlStr), NonBlank)
  IN IF Len(lines) = 0
     THEN [headers |-> <<>>, rows |-> <<>>]
     ELSE LET delimiter == IF Includes(lines[1], CommaStr) THEN CommaStr ELSE TabStr
          IN [headers |-> MapTrim(Split(lines[1], delimiter)),
              rows |-> [i \in 1..(Len(lines) - 1) |->
                          MapTrim(Split(lines[i + 1], delimiter))]]

\* x => Boolean(x) on a string
NonEmptyString(x) == x # <<>>

\* [...new Set(xs)]: the first occurrence of every element, in order
RECURSIVE Unique(_)
Unique(xs) ==
  IF xs = <<>> THEN <<>>
  ELSE LET rest == Unique(SubSeq(xs, 1, Len(xs) - 1))
           last == xs[Len(xs)]
       IN IF last \in Range(rest) THEN rest ELSE Append(rest, last)

parseGeneIds(geneData) ==
  LET rows == parseData(geneData).rows
      geneIds == SelectSeq([i \in 1..Len(rows) |-> rows[i][1]], NonEmptyString)
  IN Unique(geneIds)

----------------------------------------------------------------------------
(* Sidebar.tsx: the values the component holds                             *)

Custom == "Custom SBGN File"

\* The entries of ALL_DATABASES the database select is exercised with, one for
\* each way the component treats a source: Reactome and KEGG have a mapper,
\* SMPDB stands for the sources without one (MetaCyc, SMPDB, PANTHER and
\* METACROP take the same branches of the component), and Custom.
SidebarDatabases == {"Reactome", "KEGG", "SMPDB", Custom}

\* a species id of a source: the n-th species of its catalog
SpeciesId(database, n) == [database |-> database, n |-> n]

\* the empty species id ''
NoSpeciesId == SpeciesId("", 0)

\* '48887', the species of App's initial config and of the sample data
HumanSpeciesId == SpeciesId("Reactome", 2)

\* a pathway id of a source's species: the n-th pathway of that species
PathwayId(database, speciesId, n) ==
  [database |-> database, speciesId |-> speciesId, n |-> n]

\* the empty pathway id ''
NoPathwayId == PathwayId("", NoSpeciesId, 0)

\* 'R-HSA-1640170', the pathway of the sample data
SamplePathwayId == PathwayId("Reactome", HumanSpeciesId, 2)

\* what fetchSpecies(database) resolves to when the source has species
SpeciesOf(database) ==
  << [id |-> SpeciesId(database, 1), displayName |-> NameLowerA],
     [id |-> SpeciesId(database, 2), displayName |-> NameUpperB] >>

\* what fetchPathways(database, speciesId) resolves to when there are pathways
PathwaysOf(database, speciesId) ==
  << [id |-> PathwayId(database, speciesId, 1), displayName |-> NameLowerA],
     [id |-> PathwayId(database, speciesId, 2), displayName |-> NameUpperB] >>

\* display names in the order localeCompare sorts them: 'a', 'Ab', 'b', 'B'
CatalogNames == <<NameLowerA, NameUpperAb, NameLowerB, NameUpperB>>

\* the pathways of a species that has MaxPathways of them, sorted by display
\* name as fetchPathways returns them
PathwayCatalog(database, speciesId) ==
  [n \in 1..MaxPathways |->
     [id |-> PathwayId(database, speciesId, n), displayName |-> CatalogNames[n]]]

\* every list fetchPathways may resolve to for the species: the catalog
\* without some of its records
PathwayLists(database, speciesId) ==
  LET catalog == PathwayCatalog(database, speciesId)
  IN {SelectSeq(catalog, LAMBDA p : p.id.n \in ns) : ns \in SUBSET (1..MaxPathways)}

\* every set a mapper may resolve to for the species: some of its pathways
HighlightSets(database, speciesId) ==
  {{PathwayId(database, speciesId, n) : n \in ns} : ns \in SUBSET (1..MaxPathways)}

\* what the user may type into the pathway search box: '', 'a', 'B'
SearchTerms == {<<>>, NameLowerA, NameUpperB}

\* what a mapper may resolve to: no pathway, or some pathway of the species
MatchSets(database, speciesId) ==
  {{}, {PathwayId(database, speciesId, 1)}}

\* gene files: 'S,v\nC,1\nC,2\n' and the header 'S,v\n' alone
GeneFileC == <<83, 44, 118, 10, 67, 44, 49, 10, 67, 44, 50, 10>>
GeneFileHeader == <<83, 44, 118, 10>>

\* sampleData of handleLoadSampleGeneData
sampleData ==
  <<83, 89, 77, 66, 79, 76, 44, 108, 111, 103, 50, 70, 111, 108, 100, 67,
  104, 97, 110, 103, 101, 44, 112, 97, 100, 106, 10, 67, 68, 67, 50, 48, 44,
  50, 46, 53, 44, 48, 46, 48, 48, 49, 10, 65, 85, 82, 75, 66, 44, 45, 49,
  46, 56, 44, 48, 46, 48, 48, 53, 10, 80, 76, 75, 49, 44, 51, 46, 49, 44,
  48, 46, 48, 48, 48, 49, 10, 67, 67, 78, 66, 49, 44, 50, 46, 56, 44, 48,
  46, 48, 48, 48, 53, 10, 66, 85, 66, 49, 66, 44, 45, 50, 46, 50, 44, 48,
  46, 48, 48, 50, 10, 77, 65, 68, 50, 76, 49, 44, 49, 46, 53, 44, 48, 46,
  48, 49, 10, 67, 68, 75, 49, 44, 49, 46, 57, 44, 48, 46, 48, 48, 56, 10,
  70, 79, 88, 77, 49, 44, 45, 49, 46, 50, 44, 48, 46, 48, 51>>

\* the files the user may pick in the gene file input
GeneFiles == {GeneFileC, GeneFileHeader}

\* the error a rejected fetchSpecies / fetchPathways leaves in the component
ErrorMessage(op, database) == [t |-> "string", v |-> <<op, database>>]

\* promises in flight: a fetchSpecies, fetchPathways or mapper call. A call
\* is superseded once the answer of a mapping call issued after it, for
\* another selection, was stored while that selection was the current one.
SpeciesRequest(database) ==
  [kind |-> "species", pathwayDatabase |-> database,
   speciesId |-> NoSpeciesId, geneIds |-> <<>>, superseded |-> FALSE]

PathwaysRequest(database, speciesId) ==
  [kind |-> "pathways", pathwayDatabase |-> database,
   speciesId |-> speciesId, geneIds |-> <<>>, superseded |-> FALSE]

MappingRequest(database, speciesId, geneIds) ==
  [kind |-> "mapping", pathwayDatabase |-> database,
   speciesId |-> speciesId, geneIds |-> geneIds, superseded |-> FALSE]

\* a sequence without its i-th element
RemoveAt(s, i) == SubSeq(s, 1, i - 1) \o SubSeq(s, i + 1, Len(s))

NoTimer == [kind |-> "none"]

\* setTimeout(findHighlights, 300): the closure holds the render's values.
\* replaced tells that the effect's cleanup cleared a timer that had not fired
\* yet before this one was set.
Arm(s, replaced) ==
  [kind |-> "armed", geneData |-> s.geneData, pathways |-> s.pathways,
   speciesId |-> s.speciesId, pathwayDatabase |-> s.pathwayDatabase,
   replaced |-> replaced]

----------------------------------------------------------------------------
(* Sidebar.tsx: the effects                                                *)

\* a species effect that cleared the lists and left the selection alone
ClearsListsOnly(s) == [s EXCEPT !.speciesList = <<>>, !.pathways = <<>>]

\* loadSpecies up to its await
loadSpeciesStart(s) ==
  IF s.pathwayDatabase = Custom
  THEN [s EXCEPT !.speciesList = <<>>, !.pathways = <<>>]
  ELSE [s EXCEPT !.speciesLoading = TRUE, !.speciesError = Null,
                 !.speciesList = <<>>, !.pathways = <<>>,
                 !.speciesId = NoSpeciesId, !.pathwayId = NoPathwayId]

\* loadPathways up to its await
loadPathwaysStart(s) ==
  [s EXCEPT !.pathwaysLoading = TRUE, !.pathwayError = Null,
            !.pathways = <<>>, !.pathwayId = NoPathwayId]

\* a highlight effect whose dependency array named geneData alone
DependsOnGeneDataAlone(prev, cur, pathwaysSet, runsPathways) ==
  cur.geneData # prev.geneData

\* The highlight effect's dependencies [geneData, pathways, config.speciesId,
\* config.pathwayDatabase] differ between two renders. pathways differs
\* whenever setPathways was called: by the handler (pathwaysSet), by the
\* species effect after a change of source, by the pathways effect when it
\* runs (runsPathways).
HighlightDepsChanged(prev, cur, pathwaysSet, runsPathways) ==
  \/ cur.pathwayDatabase # prev.pathwayDatabase
  \/ cur.speciesId # prev.speciesId
  \/ cur.geneData # prev.geneData
  \/ pathwaysSet
  \/ runsPathways

\* One commit of the component. prev is the last render, cur the render after
\* the handler's updates, pathwaysSet tells that the handler called
\* setPathways (a new array, whatever it holds). The effects whose
\* dependencies changed run with the values of cur; their updates give the
\* next render, in which only the highlight effect has work left to do.
Commit(prev, cur, pathwaysSet) ==
  LET dbChanged == cur.pathwayDatabase # prev.pathwayDatabase
      speciesChanged == cur.speciesId # prev.speciesId
      runsPathways ==
        /\ dbChanged \/ speciesChanged
        /\ cur.speciesId # NoSpeciesId
        /\ cur.pathwayDatabase # Custom
      s1 == IF dbChanged THEN loadSpeciesStart(cur) ELSE cur
      s2 == IF runsPathways THEN loadPathwaysStart(s1) ELSE s1
      r1 == IF dbChanged /\ cur.pathwayDatabase # Custom
            THEN <<SpeciesRequest(cur.pathwayDatabase)>>
            ELSE <<>>
      r2 == IF runsPathways
            THEN <<PathwaysRequest(cur.pathwayDatabase, cur.speciesId)>>
            ELSE <<>>
  IN [state |-> s2,
      requests |-> r1 \o r2,
      rearm |-> HighlightDepsChanged(prev, cur, pathwaysSet, runsPathways)]

\* the component re-renders with cur; pending are the promises still in flight
Render(cur, pathwaysSet, pending) ==
  LET c == Commit(sb, cur, pathwaysSet)
  IN /\ calls + Len(c.requests) <= MaxCalls
     /\ sb' = c.state
     /\ timer' = IF c.rearm THEN Arm(c.state, timer.kind = "armed") ELSE timer
     /\ inflight' = pending \o c.requests
     /\ calls' = calls + Len(c.requests)

----------------------------------------------------------------------------
(* Sidebar.tsx: handlers, promise continuations and the debounce timer     *)

\* the database select: handleConfigChange('pathwayDatabase', database)
ChangeDatabase(database) ==
  /\ database # sb.pathwayDatabase
  /\ Render([sb EXCEPT !.pathwayDatabase = database], FALSE, inflight)
  /\ UNCHANGED <<stale, app, fvars, mvars>>

\* the species select: handleConfigChange('speciesId', speciesId)
ChangeSpecies(speciesId) ==
  /\ sb.pathwayDatabase # Custom
  /\ ~sb.speciesLoading
  /\ \E i \in 1..Len(sb.speciesList) : sb.speciesList[i].id = speciesId
  /\ speciesId # sb.speciesId
  /\ Render([sb EXCEPT !.speciesId = speciesId], FALSE, inflight)
  /\ UNCHANGED <<stale, app, fvars, mvars>>

\* the pathway select: handleConfigChange('pathwayId', pathwayId)
ChangePathway(pathwayId) ==
  /\ sb.pathwayDatabase # Custom
  /\ ~sb.pathwaysLoading
  /\ \E i \in 1..Len(sb.pathways) : sb.pathways[i].id = pathwayId
  /\ pathwayId # sb.pathwayId
  /\ Render([sb EXCEPT !.pathwayId = pathwayId], FALSE, inflight)
  /\ UNCHANGED <<stale, app, fvars, mvars>>

\* the gene file input: a file was read (its text) or the choice was
\* cancelled (null)
handleFileChange(data) ==
  /\ data # sb.geneData
  /\ Render([sb EXCEPT !.geneData = data], FALSE, inflight)
  /\ UNCHANGED <<stale, app, fvars, mvars>>

handleLoadSampleGeneData ==
  /\ Render([sb EXCEPT !.geneData = Str(sampleData),
                       !.pathwayDatabase = "Reactome",
                       !.speciesId = HumanSpeciesId,
                       !.pathwayId = SamplePathwayId], FALSE, inflight)
  /\ UNCHANGED <<stale, app, fvars, mvars>>

\* loadSpecies after its await: fetchSpecies resolved
SpeciesResolve(i, species) ==
  /\ i \in 1..Len(inflight)
  /\ inflight[i].kind = "species"
  /\ Render([sb EXCEPT !.speciesList = species,
                       !.speciesId = IF Len(species) > 0 THEN species[1].id ELSE @,
                       !.speciesLoading = FALSE], FALSE, RemoveAt(inflight, i))
  /\ UNCHANGED <<stale, app, fvars, mvars>>

\* loadSpecies after its await: fetchSpecies rejected
SpeciesReject(i) ==
  /\ i \in 1..Len(inflight)
  /\ inflight[i].kind = "species"
  /\ Render([sb EXCEPT !.speciesError = ErrorMessage("species", inflight[i].pathwayDatabase),
                       !.speciesLoading = FALSE], FALSE, RemoveAt(inflight, i))
  /\ UNCHANGED <<stale, app, fvars, mvars>>

\* a store that added the fetched records to the list already shown
AppendedToCurrent(current, fetchedPathways) == current \o fetchedPathways

\* setPathways(fetchedPathways): the state is replaced by the fetched list
setPathways(current, fetchedPathways) == fetchedPathways

\* loadPathways after its await: fetchPathways resolved
PathwaysResolve(i, fetchedPathways) ==
  /\ i \in 1..Len(inflight)
  /\ inflight[i].kind = "pathways"
  /\ Render([sb EXCEPT !.pathways = setPathways(@, fetchedPathways),
                       !.pathwaysLoading = FALSE], TRUE, RemoveAt(inflight, i))
  /\ UNCHANGED <<stale, app, fvars, mvars>>

\* loadPathways after its await: fetchPathways rejected
PathwaysReject(i) ==
  /\ i \in 1..Len(inflight)
  /\ inflight[i].kind = "pathways"
  /\ Render([sb EXCEPT !.pathwayError = ErrorMessage("pathways", inflight[i].pathwayDatabase),
                       !.pathwaysLoading = FALSE], FALSE, RemoveAt(inflight, i))
  /\ UNCHANGED <<stale, app, fvars, mvars>>

\* the pathway search box: setPathwaySearch(e.target.value)
setPathwaySearch(term) ==
  /\ term # sb.pathwaySearch
  /\ Render([sb EXCEPT !.pathwaySearch = term], FALSE, inflight)
  /\ UNCHANGED <<stale, app, fvars, mvars>>

\* pathways.filter(p => p.displayName.toLowerCase().includes(lowercasedFilter))
filteredPathways(pathways, pathwaySearch) ==
  LET lowercasedFilter == ToLowerCase(pathwaySearch)
  IN SelectSeq(pathways,
               LAMBDA p : Includes(ToLowerCase(p.displayName), lowercasedFilter))

\* a grouping that listed every filtered pathway under 'other' as well
OtherHoldsAll(filtered, highlightedPathways) ==
  [highlighted |-> SelectSeq(filtered, LAMBDA p : p.id \in highlightedPathways),
   other |-> filtered]

\* the two groups of the pathway select: the pathways the mapper matched, and
\* the rest
groupedPathways(filtered, highlightedPathways) ==
  IF Len(filtered) = 0 THEN [highlighted |-> <<>>, other |-> <<>>]
  ELSE [highlighted |-> SelectSeq(filtered, LAMBDA p : p.id \in highlightedPathways),
        other |-> SelectSeq(filtered, LAMBDA p : p.id \notin highlightedPathways)]

\* a mapper for every source would send every source's identifiers out
MapperForEverySource(database) == database # Custom

\* the sources findHighlights has a mapper for: mapGenesToPathways for
\* Reactome, mapGenesToPathwaysKegg for KEGG
HasMapper(database) == database \in {"Reactome", "KEGG"}

\* the debounce timer fires: findHighlights up to its await, or to its end
\* when it does not await
findHighlights ==
  /\ timer.kind = "armed"
  /\ LET skips ==
           \/ ~Truthy(timer.geneData)
           \/ Len(timer.pathways) = 0
           \/ timer.speciesId = NoSpeciesId
           \/ timer.pathwayDatabase = Custom
         geneIds == IF skips THEN <<>> ELSE parseGeneIds(timer.geneData.v)
     IN IF ~skips /\ Len(geneIds) # 0 /\ HasMapper(timer.pathwayDatabase)
        THEN /\ calls < MaxCalls
             /\ inflight' = Append(inflight,
                  MappingRequest(timer.pathwayDatabase, timer.speciesId, geneIds))
             /\ calls' = calls + 1
             /\ UNCHANGED <<sb, stale>>
        ELSE /\ sb' = [sb EXCEPT !.highlightedPathways = {}]
             /\ stale' = FALSE
             /\ UNCHANGED <<inflight, calls>>
  /\ timer' = NoTimer
  /\ UNCHANGED <<app, fvars, mvars>>

\* what a mapping call was made for: source, species, identifier set
Selection(r) == <<r.pathwayDatabase, r.speciesId, r.geneIds>>

\* the selection the component shows
CurrentSelection(s) ==
  <<s.pathwayDatabase, s.speciesId,
    IF Truthy(s.geneData) THEN parseGeneIds(s.geneData.v) ELSE <<>>>>

\* The calls left in flight after the i-th, a mapping call, resolved. The
\* mapping calls issued before it for another selection are superseded if
\* the resolved call was made for the current selection.
Supersede(pending, i) ==
  LET r == pending[i]
  IN [j \in 1..(Len(pending) - 1) |->
        LET q == pending[IF j < i THEN j ELSE j + 1]
        IN IF /\ j < i
              /\ q.kind = "mapping"
              /\ Selection(q) # Selection(r)
              /\ Selection(r) = CurrentSelection(sb)
           THEN [q EXCEPT !.superseded = TRUE]
           ELSE q]

\* findHighlights after its await: the mapper resolved (it never rejects)
MappingResolve(i, mappedPathwayIds) ==
  /\ i \in 1..Len(inflight)
  /\ inflight[i].kind = "mapping"
  /\ sb' = [sb EXCEPT !.highlightedPathways = mappedPathwayIds]
  /\ stale' = inflight[i].superseded
  /\ inflight' = Supersede(inflight, i)
  /\ UNCHANGED <<timer, calls, app, fvars, mvars>>

----------------------------------------------------------------------------
(* App.tsx: handleGenerate                                                 *)

\* a string of the interface: an error message
Message(text) == [t |-> "string", v |-> text]

\* no generatePathwaySvg call in flight
NoRender == [kind |-> "none"]

\* generatePathwaySvg(summarizedGeneData, summarizedCompoundData, config) in
\* flight
RenderCall(pathwayId) == [kind |-> "pending", pathwayId |-> pathwayId]

\* rowData[header] = row[index] on an object kept as its properties in
\* insertion order; a row shorter than the header leaves undefined
RECURSIVE RowData(_, _, _, _)
RowData(headers, row, index, properties) ==
  IF index > Len(headers) THEN properties
  ELSE LET value == IF index <= Len(row) THEN Str(row[index]) ELSE Undef
           header == headers[index]
       IN RowData(headers, row, index + 1,
            IF \E i \in 1..Len(properties) : properties[i].header = header
            THEN [i \in 1..Len(properties) |->
                    IF properties[i].header = header
                    THEN [header |-> header, value |-> value]
                    ELSE properties[i]]
            ELSE Append(properties, [header |-> header, value |-> value]))

\* rows.forEach(row => { if (row[0]) dataMap.set(row[0], rowData) }) on a Map
\* kept as its entries in insertion order
RECURSIVE DataMapOfRows(_, _, _)
DataMapOfRows(headers, rows, dataMap) ==
  IF rows = <<>> THEN dataMap
  ELSE LET row == Head(rows)
           identifier == row[1]
           rowData == RowData(headers, row, 1, <<>>)
       IN DataMapOfRows(headers, Tail(rows),
            IF identifier = <<>> THEN dataMap
            ELSE IF \E i \in 1..Len(dataMap) : dataMap[i].identifier = identifier
            THEN [i \in 1..Len(dataMap) |->
                    IF dataMap[i].identifier = identifier
                    THEN [identifier |-> identifier, rowData |-> rowData]
                    ELSE dataMap[i]]
            ELSE Append(dataMap, [identifier |-> identifier, rowData |-> rowData]))

parseDataToMap(data) ==
  LET parsed == parseData(data)
  IN IF Len(parsed.headers) = 0 \/ Len(parsed.rows) = 0 THEN <<>>
     ELSE DataMapOfRows(parsed.headers, parsed.rows, <<>>)

\* App's state before the first click
AppInit ==
  app = [isLoading |-> FALSE, error |-> Null, pathwaySvg |-> Null,
         parsedGeneData |-> <<>>, parsedCompoundData |-> <<>>,
         render |-> NoRender]

\* handleGenerate up to its await, or to its return; no compound data is loaded
handleGenerateStart(a, geneData, pathwayId) ==
  IF ~Truthy(geneData)
  THEN [a EXCEPT !.error = Message("Please upload gene expression data before generating.")]
  ELSE IF pathwayId = NoPathwayId
  THEN [a EXCEPT !.error = Message("Please select a pathway before generating.")]
  ELSE [a EXCEPT !.isLoading = TRUE, !.error = Null, !.pathwaySvg = Null,
                 !.parsedGeneData = parseDataToMap(geneData.v),
                 !.parsedCompoundData = <<>>,
                 !.render = RenderCall(pathwayId)]

\* the try block after its await, and the finally block
handleGenerateResolved(a, svg) ==
  [a EXCEPT !.pathwaySvg = Str(svg), !.isLoading = FALSE, !.render = NoRender]

\* a handler without the finally block
CatchWithoutFinally(a, message) ==
  [a EXCEPT !.error = Message(message), !.render = NoRender]

\* the catch block and the finally block
handleGenerateRejected(a, message) ==
  [a EXCEPT !.error = Message(message), !.isLoading = FALSE, !.render = NoRender]

\* the Generate button, disabled while isLoading
handleGenerate ==
  /\ ~app.isLoading
  /\ app' = handleGenerateStart(app, sb.geneData, sb.pathwayId)
  /\ UNCHANGED <<sb, timer, inflight, calls, stale, fvars, mvars>>

\* generatePathwaySvg resolved with the text of the answer
GenerateResolve(svg) ==
  /\ app.render.kind = "pending"
  /\ app' = handleGenerateResolved(app, svg)
  /\ UNCHANGED <<sb, timer, inflight, calls, stale, fvars, mvars>>

\* generatePathwaySvg rejected: it throws one error whatever failed
GenerateReject ==
  /\ app.render.kind = "pending"
  /\ app' = handleGenerateRejected(app,
       "Failed to generate pathway visualization. Please check your API key and try again.")
  /\ UNCHANGED <<sb, timer, inflight, calls, stale, fvars, mvars>>

MapIdle ==
  /\ mpc = "idle"
  /\ mcall = NoMapCall
  /\ mfind = <<>>
  /\ mresp = NoResp
  /\ mnet = <<>>
  /\ mresult = NoResult

\* The component after it mounted with App's initial config (Reactome,
\* '48887', no gene data): the species effect cleared the ids and awaits
\* fetchSpecies, the pathways effect ran with '48887' and awaits
\* fetchPathways, the highlight effect armed the timer.
SidebarInit ==
  /\ sb = [pathwayDatabase |-> "Reactome",
           speciesId |-> NoSpeciesId,
           pathwayId |-> NoPathwayId,
           geneData |-> Null,
           speciesList |-> <<>>,
           pathways |-> <<>>,
           highlightedPathways |-> {},
           speciesLoading |-> TRUE,
           pathwaysLoading |-> TRUE,
           speciesError |-> Null,
           pathwayError |-> Null,
           pathwaySearch |-> <<>>]
  /\ timer = [kind |-> "armed", geneData |-> Null, pathways |-> <<>>,
              speciesId |-> NoSpeciesId, pathwayDatabase |-> "Reactome",
              replaced |-> TRUE]
  /\ inflight = <<SpeciesRequest("Reactome"),
                  PathwaysRequest("Reactome", HumanSpeciesId)>>
  /\ calls = 2
  /\ stale = FALSE

Init == FetchIdle /\ MapIdle /\ SidebarInit /\ AppInit

FetchNext ==
  \/ \E call \in Calls : FetchCall(call)
  \/ fpc = "wait" /\ \E resp \in Responses(fcall) : FetchRespond(resp)

Next == FetchNext

\* one call of fetchSpecies or fetchPathways against every answer of the source
Spec == Init /\ [][Next]_vars

RepeatNext ==
  \/ FetchNext
  \/ FetchAgain

\* the same, with the call repeated once
SpecRepeat == Init /\ [][RepeatNext]_vars

BrowseNext ==
  \/ FetchNext
  \/ \E speciesId \in SpeciesIds \ {<<>>} : FetchPathwaysNext(speciesId)

\* fetchSpecies of a source followed by fetchPathways of one of its species
SpecBrowse == Init /\ [][BrowseNext]_vars

MapNext ==
  \/ \E call \in MapCalls : MapCallReactome(call)
  \/ \E resp \in ReactomeMappingResponses : MapReactomeRespond(resp)
  \/ \E call \in MapCalls : MapCallKegg(call)
  \/ \E i \in 1..Len(mfind) : MapFindReject(i)
  \/ \E i \in 1..Len(mfind), resp \in FindResponses : MapFindResolve(i, resp)
  \/ \E resp \in LinkResponses : MapLinkRespond(resp)

\* one call of a mapper against every answer of the source
SpecMap == Init /\ [][MapNext]_vars

SidebarNext ==
  \/ \E database \in SidebarDatabases : ChangeDatabase(database)
  \/ \E i \in 1..Len(sb.speciesList) : ChangeSpecies(sb.speciesList[i].id)
  \/ \E i \in 1..Len(sb.pathways) : ChangePathway(sb.pathways[i].id)
  \/ \E data \in {Null} \cup {Str(f) : f \in GeneFiles} : handleFileChange(data)
  \/ handleLoadSampleGeneData
  \/ \E i \in 1..Len(inflight) :
       \E species \in {<<>>, SpeciesOf(inflight[i].pathwayDatabase)} :
         SpeciesResolve(i, species)
  \/ \E i \in 1..Len(inflight) : SpeciesReject(i)
  \/ \E i \in 1..Len(inflight) :
       \E list \in {<<>>, PathwaysOf(inflight[i].pathwayDatabase, inflight[i].speciesId)} :
         PathwaysResolve(i, list)
  \/ \E i \in 1..Len(inflight) : PathwaysReject(i)
  \/ findHighlights
  \/ \E i \in 1..Len(inflight) :
       \E ids \in MatchSets(inflight[i].pathwayDatabase, inflight[i].speciesId) :
         MappingResolve(i, ids)

\* the Sidebar under every order of user actions, timer and answers
SpecSidebar == Init /\ [][SidebarNext]_vars

HighlightNext ==
  \/ \E database \in Databases : ChangeDatabase(database)
  \/ \E i \in 1..Len(sb.speciesList) : ChangeSpecies(sb.speciesList[i].id)
  \/ \E data \in {Null, Str(GeneFileC)} : handleFileChange(data)
  \/ \E i \in 1..Len(inflight) :
       SpeciesResolve(i, SpeciesOf(inflight[i].pathwayDatabase))
  \/ \E i \in 1..Len(inflight) :
       PathwaysResolve(i, PathwaysOf(inflight[i].pathwayDatabase, inflight[i].speciesId))
  \/ findHighlights
  \/ \E i \in 1..Len(inflight) :
       \E ids \in MatchSets(inflight[i].pathwayDatabase, inflight[i].speciesId) :
         MappingResolve(i, ids)

CatalogNext ==
  \/ \E database \in SidebarDatabases : ChangeDatabase(database)
  \/ \E i \in 1..Len(sb.speciesList) : ChangeSpecies(sb.speciesList[i].id)
  \/ \E i \in 1..Len(sb.pathways) : ChangePathway(sb.pathways[i].id)
  \/ handleLoadSampleGeneData
  \/ \E i \in 1..Len(inflight) :
       \E species \in {<<>>, SpeciesOf(inflight[i].pathwayDatabase)} :
         SpeciesResolve(i, species)
  \/ \E i \in 1..Len(inflight) : SpeciesReject(i)
  \/ \E i \in 1..Len(inflight) :
       \E list \in {<<>>, PathwaysOf(inflight[i].pathwayDatabase, inflight[i].speciesId)} :
         PathwaysResolve(i, list)
  \/ \E i \in 1..Len(inflight) : PathwaysReject(i)

AnnotateNext ==
  \/ handleLoadSampleGeneData
  \/ \E i \in 1..Len(inflight) :
       \E list \in PathwayLists(inflight[i].pathwayDatabase, inflight[i].speciesId) :
         PathwaysResolve(i, list)
  \/ findHighlights
  \/ \E i \in 1..Len(inflight) :
       \E ids \in HighlightSets(inflight[i].pathwayDatabase, inflight[i].speciesId) :
         MappingResolve(i, ids)
  \/ \E term \in SearchTerms : setPathwaySearch(term)

\* the pathway select of the Sidebar: the sample data loaded, every pathway
\* list and every set of matches, every search term
SpecAnnotate == Init /\ [][AnnotateNext]_vars

\* '<svg/>', an answer of the renderer; it may also answer with no text
SvgText == <<60, 115, 118, 103, 47, 62>>

GenerateNext ==
  \/ \E data \in {Null, Str(<<>>), Str(GeneFileC)} : handleFileChange(data)
  \/ handleLoadSampleGeneData
  \/ \E i \in 1..Len(inflight) :
       \E species \in {SpeciesOf(inflight[i].pathwayDatabase)} : SpeciesResolve(i, species)
  \/ \E i \in 1..Len(inflight) :
       \E list \in {PathwaysOf(inflight[i].pathwayDatabase, inflight[i].speciesId)} :
         PathwaysResolve(i, list)
  \/ \E i \in 1..Len(sb.pathways) : ChangePathway(sb.pathways[i].id)
  \/ handleGenerate
  \/ \E svg \in {<<>>, SvgText} : GenerateResolve(svg)
  \/ GenerateReject

\* App and Sidebar: gene data and a pathway are chosen or not, Generate is
\* clicked, the renderer resolves or rejects
SpecGenerate == Init /\ [][GenerateNext]_vars

\* the Sidebar's species and pathways effects under every order of selections
\* and answers, the highlight timer never firing
SpecCatalog == Init /\ [][CatalogNext]_vars

PathwayListNext ==
  \/ FetchIdle /\ CatalogNext
  \/ SidebarInit /\ \E speciesId \in SpeciesIds : FetchCall(PathwaysCall("SMPDB", speciesId))
  \/ SidebarInit /\ fpc = "wait" /\ \E resp \in Responses(fcall) : FetchRespond(resp)

\* where a pathway list comes from: either the Sidebar is exercised as in
\* SpecCatalog, or fetchPathways('SMPDB', speciesId) is called on its own
\* against every answer of the source
SpecPathwayList == Init /\ [][PathwayListNext]_vars

\* the Sidebar's highlight effect with every entry of ALL_DATABASES, under the
\* user actions and answers that change what the effect depends on
SpecHighlight == Init /\ [][HighlightNext]_vars

----------------------------------------------------------------------------
(* Claims about fetchSpecies and fetchPathways                             *)

FetchDone(op) == fpc = "done" /\ fcall.op = op

\* the six sources of PathwayDatabase
Sources == Databases \ {"Custom SBGN File"}

\* the source has no data: HTTP 404, or a 2xx answer with an empty body
NoData(resp) ==
  /\ ~resp.failed
  /\ \/ resp.status = 404
     \/ Ok(resp) /\ resp.body = EmptyBody

\* C6: for every source, fetchPathways for a species without data (the source
\* answers 404, or with an empty body) returns [] and does not throw.
C6_NoDataGivesEmptyList ==
  (FetchDone("pathways") /\ fcall.speciesId # <<>> /\ NoData(fresp))
    => fresult = ListResult(<<>>)

\* C7 as stated: for every source and every non-empty species id, fetchPathways
\* throws when every answer the network gives is an HTTP 500.
C7_EverySourceThrowsUnder500 ==
  (/\ FetchDone("pathways")
   /\ fcall.database \in Sources
   /\ fcall.speciesId # <<>>
   /\ (fresp = NoResp \/ fresp.status = 500))
    => fresult.kind = "throw"

\* C7 amended: fetchPathways throws whenever its request is answered with an
\* HTTP 500, which covers every source that makes a request; METACROP makes
\* none and returns its fixed list.
C7_ThrowsWhenAnswered500 ==
  /\ (FetchDone("pathways") /\ ~fresp.failed /\ fresp.status = 500)
       => fresult.kind = "throw"
  /\ (FetchDone("pathways") /\ fcall.database = "METACROP" /\ fcall.speciesId # <<>>)
       => (fnet = <<>> /\ fresult.kind = "list" /\ fresult.val # <<>>)
  /\ (fpc = "wait" /\ fcall.op = "pathways")
       => fcall.database \in {"Reactome", "KEGG", "SMPDB", "PANTHER", "MetaCyc"}

C7_Witness ==
  /\ FetchDone("pathways")
  /\ fcall.database = "KEGG"
  /\ fresp.status = 500
  /\ fresult.kind = "throw"

\* C8: two consecutive fetchPathways calls with the same arguments issue one
\* network request in total and return identical lists.
C8_SecondCallIsCacheHit ==
  (/\ FetchDone("pathways")
   /\ fprev.kind = "call"
   /\ RequestOf(fcall) # NoRequest)
    => (Len(fnet) = 1 /\ fresult = fprev.result)

\* C9: the list fetchSpecies returns holds no two entries with the same id.
C9_SpeciesIdsUnique ==
  (FetchDone("species") /\ fresult.kind = "list")
    => \A i, j \in 1..Len(fresult.val) :
         i # j => fresult.val[i].id # fresult.val[j].id

\* a <= b, comparing ignoring case
CaseInsensitiveLeq(a, b) == LexCompare(ToLowerCase(a), ToLowerCase(b)) <= 0

\* C10: the lists fetchSpecies and fetchPathways return are ordered by
\* displayName ignoring case: no entry is greater than the entry after it.
C10_SortedIgnoringCase ==
  (fpc = "done" /\ fresult.kind = "list")
    => \A i \in 1..(Len(fresult.val) - 1) :
         CaseInsensitiveLeq(fresult.val[i].displayName, fresult.val[i + 1].displayName)

\* a list whose two names compare the other way round by code unit ('B' < 'a'),
\* returned for a payload that listed them in the other order
C10_Witness ==
  /\ fpc = "done"
  /\ fcall = SpeciesCall("Reactome")
  /\ fresp.body.kind = "json"
  /\ fresp.body.val.j = "array"
  /\ Len(fresp.body.val.items) = 2
  /\ fresp.body.val.items[1] # Null
  /\ fresp.body.val.items[1].displayName = Str(NameUpperB)
  /\ fresult.kind = "list"
  /\ Len(fresult.val) = 2
  /\ fresult.val[1].displayName = NameLowerA
  /\ fresult.val[2].displayName = NameUpperB

\* the sources whose fetchSpecies performs a network call
NetworkSources == {"Reactome", "KEGG", "MetaCyc", "SMPDB", "PANTHER"}

\* the error each species fetcher throws from its catch block
SpeciesFailureMessage(database) ==
  CASE database = "Reactome" ->
         "Failed to fetch species from Reactome. Check network connection or API status."
    [] database = "KEGG" ->
         "Failed to fetch species from KEGG. The CORS proxy may be down."
    [] database = "MetaCyc" ->
         "Failed to fetch species from MetaCyc. Check network connection or API status."
    [] database = "SMPDB" ->
         "Failed to fetch species from SMPDB. Check network connection or API status."
    [] database = "PANTHER" ->
         "Failed to fetch species from PANTHER. The CORS proxy may be down."

\* C14: for every source that performs a network call, fetchSpecies rejects
\* with the error whose message names that source whenever the network call
\* fails or is answered with a non-2xx status; it resolves to no list then.
C14_SpeciesFailurePropagates ==
  (/\ FetchDone("species")
   /\ fcall.database \in NetworkSources
   /\ fresp.failed \/ ~Ok(fresp))
    => /\ fresult.kind = "throw"
       /\ fresult.message = SpeciesFailureMessage(fcall.database)

\* fetchSpecies('SMPDB') answered with status 500 has thrown
C14_Witness ==
  /\ FetchDone("species")
  /\ fcall.database = "SMPDB"
  /\ fresp = Answer(500, EmptyBody)
  /\ fresult.kind = "throw"

\* the records of a JSON answer: the array itself, or the list nested in
\* PANTHER's object; none when the answer holds no list
JsonRecords(resp) ==
  IF resp = NoResp \/ resp.failed \/ ~Ok(resp) \/ resp.body.kind # "json" THEN <<>>
  ELSE IF resp.body.val.j = "array" THEN resp.body.val.items
  ELSE IF resp.body.val.nested = Undef THEN <<>>
  ELSE resp.body.val.nested.items

\* the same answer with other records in its list
WithRecords(resp, items) ==
  IF resp.body.val.j = "array"
  THEN Answer(resp.status, JsonBody(JArr(items)))
  ELSE Answer(resp.status, JsonBody(JObj(JArr(items))))

\* C15: a null record inside an otherwise valid catalog answer is dropped:
\* fetchSpecies and fetchPathways do not throw because of it and return what
\* they return for the same answer without that record.
C15_MalformedRecordDropped ==
  LET items == JsonRecords(fresp)
  IN (fpc = "done" /\ HasNull(items))
       => /\ fresult.kind = "list"
          /\ fresult = ResultOf(fcall, WithRecords(fresp, SelectSeq(items, NotNull)))

\* the requests for SMPDB's global pathways array issued so far
SmpdbCatalogRequests ==
  SelectSeq(fnet, LAMBDA u : u = Url("https://corsproxy.io/?https://smpdb.ca",
                                     "/pathways.json", <<>>))

\* C17: fetchSpecies('SMPDB') followed by fetchPathways('SMPDB', s) issues one
\* request for the global pathways array in total.
C17_SmpdbCatalogFetchedOnce ==
  (fcall.database = "SMPDB" /\ fprev.kind = "call")
    => Len(SmpdbCatalogRequests) = 1

\* the ids of the hardcoded METACROP species: bdi, gma, hvu, mtr, osa, sly,
\* stu, zma
MetaCropSpeciesIds ==
  {<<98, 100, 105>>, <<103, 109, 97>>, <<104, 118, 117>>, <<109, 116, 114>>,
   <<111, 115, 97>>, <<115, 108, 121>>, <<115, 116, 117>>, <<122, 109, 97>>}

\* the part of a METACROP pathway id after the species id and the underscore
SlugOf(id, speciesId) == SubSeq(id, Len(speciesId) + 2, Len(id))

\* C20: METACROP performs no live fetch. fetchSpecies returns the eight
\* hardcoded species; for a non-empty speciesId fetchPathways returns the
\* sixteen generic pathways, each id being speciesId, '_' and the slug of the
\* pathway with that name, the ids pairwise distinct; no call to METACROP
\* ever issues or awaits a network request.
C20_MetaCropIsHardcoded ==
  /\ fcall.database = "METACROP" => (fnet = <<>> /\ fpc # "wait")
  /\ (FetchDone("species") /\ fcall.database = "METACROP")
       => /\ fresult.kind = "list"
          /\ Len(fresult.val) = Cardinality(MetaCropSpeciesIds)
          /\ {fresult.val[k].id : k \in 1..Len(fresult.val)} = MetaCropSpeciesIds
          /\ Range(fresult.val) = Range(metaCropSpecies)
  /\ (FetchDone("pathways") /\ fcall.database = "METACROP" /\ fcall.speciesId # <<>>)
       => /\ fresult.kind = "list"
          /\ Len(fresult.val) = Len(commonPathways)
          /\ \A k \in 1..Len(fresult.val) :
               /\ StartsWith(fresult.val[k].id, fcall.speciesId \o UnderscoreStr)
               /\ \E i \in 1..Len(commonPathways) :
                    /\ SlugOf(fresult.val[k].id, fcall.speciesId) = commonPathways[i].id_part
                    /\ fresult.val[k].displayName = commonPathways[i].name
          /\ \A k, l \in 1..Len(fresult.val) :
               k # l => fresult.val[k].id # fresult.val[l].id

\* fetchPathways('METACROP', '1') returned sixteen pathways without a request
C20_Witness ==
  /\ FetchDone("pathways")
  /\ fcall.database = "METACROP"
  /\ fcall.speciesId = IdA
  /\ fresult.kind = "list"
  /\ Len(fresult.val) = 16
  /\ fnet = <<>>

\* a 2xx answer with a JSON body that has no nested list
LacksNestedList(resp) ==
  /\ resp # NoResp
  /\ ~resp.failed
  /\ Ok(resp)
  /\ JsonParses(resp.body)
  /\ NestedList(resp.body.val) = Undef

\* C24: PANTHER: when a 2xx answer lacks the nested list
\* (search.organism_list.organism, search.pathway_list.pathway), fetchSpecies
\* and fetchPathways return [] and do not throw.
C24_PantherMissingListIsEmpty ==
  (fpc = "done" /\ fcall.database = "PANTHER" /\ LacksNestedList(fresp))
     => fresult = ListResult(<<>>)

\* fetchPathways of PANTHER answered 200 with an object without the list
C24_Witness ==
  /\ fpc = "done"
  /\ fcall = PathwaysCall("PANTHER", IdA)
  /\ fresp = Answer(200, JsonBody(JObj(Undef)))
  /\ Len(fnet) = 1
  /\ fresult = ListResult(<<>>)

----------------------------------------------------------------------------
(* Claims about mapGenesToPathways and mapGenesToPathwaysKegg              *)

MapDone(fn) == mpc = "done" /\ mcall.fn = fn

\* a find request failed: its fetch rejected, or it was answered with a non-2xx status
FindFailed(f) == f.state = "rejected" \/ (f.state = "resolved" /\ ~f.ok)

\* the texts of the find requests that succeeded, in request order
SucceededFindTexts ==
  LET good == SelectSeq(mfind, LAMBDA f : f.state = "resolved" /\ f.ok)
  IN [k \in 1..Len(good) |-> good[k].text]

\* the link requests issued so far
LinkRequestsIssued ==
  {mnet[k].url.arg : k \in {n \in 1..Len(mnet) : mnet[n].url.path = "/link/pathway/"}}

\* C2: a failed find request (non-2xx, or a rejected network call) does not
\* abort the batch: the gene ids resolved by the other find requests are still
\* sent in the link call and still decide the returned set.
C2_FailedFindDoesNotAbort ==
  LET others == KeggGeneIds(mcall.speciesId, SucceededFindTexts, <<>>)
  IN (/\ MapDone("kegg")
      /\ \E i \in 1..Len(mfind) : FindFailed(mfind[i])
      /\ \A i \in 1..Len(mfind) : mfind[i].state # "pending"
      /\ others # <<>>)
       => /\ LinkRequestsIssued = {Join(others, PlusStr)}
          /\ (~mresp.failed /\ Ok(mresp))
               => mresult = SetResult(LinkPathwayIds(TextOf(mresp.body)))

\* the gene ids of the active organism listed by the find answers: the first
\* column of every line that starts with the organism code and a colon
ResolvedGeneIds ==
  UNION {LET lines == Split(Trim(SucceededFindTexts[k]), NlStr)
         IN {Split(lines[l], TabStr)[1] :
               l \in {m \in 1..Len(lines) : StartsWith(lines[m], mcall.speciesId \o ColonStr)}} :
         k \in 1..Len(SucceededFindTexts)}

\* C13: for n > 0 identifiers and a non-empty species, mapGenesToPathwaysKegg
\* issues exactly n find requests, the i-th for the i-th identifier, and after
\* them at most one request, a link request issued once every find request
\* was answered, whose '+'-separated ids are the resolved gene ids, each once.
C13_FanOutThenOneLink ==
  (mcall.fn = "kegg" /\ mcall.speciesId # <<>> /\ Len(mcall.geneIds) > 0) =>
    LET n == Len(mcall.geneIds)
    IN /\ Len(mnet) \in {n, n + 1}
       /\ \A i \in 1..n :
            /\ mnet[i].url.path = "/find/genes/"
            /\ mnet[i] = KeggFindRequest(mcall.geneIds[i])
       /\ Len(mnet) = n + 1 =>
            /\ mnet[n + 1].url.path = "/link/pathway/"
            /\ \A i \in 1..n : mfind[i].state = "resolved"
            /\ LET ids == Split(mnet[n + 1].url.arg, PlusStr)
               IN /\ Range(ids) = ResolvedGeneIds
                  /\ Len(ids) = Cardinality(ResolvedGeneIds)

\* two identifiers, two find requests, one link request carrying two gene ids
C13_Witness ==
  /\ MapDone("kegg")
  /\ Len(mcall.geneIds) = 2
  /\ Len(mnet) = 3
  /\ mnet[3].url.path = "/link/pathway/"
  /\ Len(Split(mnet[3].url.arg, PlusStr)) = 2

\* a transport failure of the POST or of the link request: a rejected network
\* call, a non-2xx status, or a body that cannot be parsed
TransportFailure(resp) ==
  /\ resp # NoResp
  /\ \/ resp.failed
     \/ ~Ok(resp)
     \/ resp.body.kind \in {"empty", "garbage"} /\ mcall.fn = "reactome"

\* C3 as stated: after a transport failure at any step (the find requests
\* included) the mapper resolves to the empty set and never rejects.
C3_AnyFailureGivesEmptySet ==
  (/\ mpc = "done"
   /\ \/ TransportFailure(mresp)
      \/ \E i \in 1..Len(mfind) : FindFailed(mfind[i]))
    => mresult = SetResult({})

\* C3 amended: the mapper never rejects, and it resolves to the empty set
\* after every transport failure of the POST or of the link request. (A find
\* request answered with a non-2xx status only drops its own contribution.)
C3_NeverRejects ==
  /\ mpc = "done" => mresult.kind = "set"
  /\ (mpc = "done" /\ TransportFailure(mresp)) => mresult = SetResult({})

\* the link request of a KEGG call is answered with HTTP 500
C3_Witness ==
  /\ MapDone("kegg")
  /\ ~mresp.failed
  /\ mresp.status = 500
  /\ mresult = SetResult({})

\* a reference with its 'path:' prefix, if it has one, cut off
StripPathPrefix(ref) ==
  IF StartsWith(ref, PathPrefix) THEN SubSeq(ref, Len(PathPrefix) + 1, Len(ref)) ELSE ref

\* the references in the second tab-separated column of the lines of a text
SecondColumns(text) ==
  LET lines == Split(text, NlStr)
  IN {Split(lines[i], TabStr)[2] :
        i \in {k \in 1..Len(lines) : Len(Split(lines[k], TabStr)) >= 2}}

\* C4: when the link call succeeds, the result is exactly the set of the
\* references in the second column of the link answer's lines, each without
\* its 'path:' prefix; lines without a second column contribute nothing.
C4_LinkResultIsSecondColumn ==
  (MapDone("kegg") /\ mresp # NoResp /\ ~mresp.failed /\ Ok(mresp))
    => mresult =
         SetResult({StripPathPrefix(ref) : ref \in SecondColumns(TextOf(mresp.body))})

\* the example of the specification: two identifiers resolved to hsa:1 and
\* hsa:2, and the single link line 'hsa:1<TAB>path:h1'
C4_Witness ==
  /\ MapDone("kegg")
  /\ Len(mfind) = 2
  /\ mfind[1].text = TextOfLines(<<FindLineHsa1>>)
  /\ mfind[2].text = TextOfLines(<<FindLineHsa2>>)
  /\ Len(mnet) = 3
  /\ mnet[3].url.arg = Hsa \o ColonStr \o IdA \o PlusStr \o Hsa \o ColonStr \o IdB
  /\ mresp = Answer(200, TextBody(TextOfLines(
                <<Hsa \o ColonStr \o IdA \o TabStr \o PathPrefix \o PwA>>)))
  /\ mresult = SetResult({PwA})

\* the orderings of a sequence
Orderings(s) ==
  {[i \in 1..Len(s) |-> s[f[i]]] :
     f \in {g \in [1..Len(s) -> 1..Len(s)] : \A i, j \in 1..Len(s) : i # j => g[i] # g[j]}}

\* C5: mapGenesToPathways issues exactly one POST, whose body read back at its
\* commas is the identifier list in input order; on a 2xx answer the result is
\* the set of the stId of the pathways array, whatever the array's order, and
\* is empty when the pathways field is absent.
C5_ReactomeMapping ==
  /\ (mcall.fn = "reactome" /\ mpc # "idle")
       => /\ Len(mnet) = 1
          /\ mnet[1].method = "POST"
          /\ mcall.geneIds # <<>> => Split(mnet[1].body, CommaStr) = mcall.geneIds
          /\ mcall.geneIds = <<>> => mnet[1].body = <<>>
  /\ (/\ MapDone("reactome")
      /\ Ok(mresp)
      /\ mresp.body.kind = "json"
      /\ mresp.body.val # Null)
       => IF mresp.body.val.pathways = Undef THEN mresult = SetResult({})
          ELSE LET items == mresp.body.val.pathways.items
               IN ~HasNull(items) =>
                    /\ mresult = SetResult({items[i].stId.v : i \in 1..Len(items)})
                    /\ \A q \in Orderings(items) :
                         mapGenesToPathways(Answer(200, JsonBody([pathways |-> JArr(q)])))
                           = mresult

\* two identifiers posted, two distinct pathways answered
C5_Witness ==
  /\ MapDone("reactome")
  /\ mcall.geneIds = <<<<67>>, <<65, 43>>>>
  /\ mnet[1].body = <<67, 44, 65, 43>>
  /\ mresult = SetResult({PwA, PwB})

\* the find requests issued so far, in order
FindRequestsIssued == SelectSeq(mnet, LAMBDA r : r.url.path = "/find/genes/")

\* C16: mapGenesToPathwaysKegg deduplicates its input: the find requests of a
\* call are those of its identifier list with the duplicates removed, one per
\* distinct identifier.
C16_MapperDeduplicatesInput ==
  (mcall.fn = "kegg" /\ mcall.speciesId # <<>>)
    => LET distinct == Unique(mcall.geneIds)
       IN FindRequestsIssued = [i \in 1..Len(distinct) |-> KeggFindRequest(distinct[i])]

\* the gene ids a link request carries: its argument read back at the '+'
LinkedGeneIds(request) == Split(request.url.arg, PlusStr)

\* the lines of the find answers that succeeded
SucceededFindLines ==
  UNION {Range(Split(Trim(SucceededFindTexts[k]), NlStr)) :
           k \in 1..Len(SucceededFindTexts)}

\* the organism code of a gene id: what precedes its colon
OrganismOf(geneId) == SubSeq(geneId, 1, IndexOf(geneId, ColonStr) - 1)

\* C21: every gene id in a link request of mapGenesToPathwaysKegg is the
\* first column of a find-result line that starts with '<speciesId>:', so its
\* organism code is the active species; no gene id occurs twice in the URL.
C21_LinkCarriesGenesOfSpeciesOnce ==
  \A n \in 1..Len(mnet) :
    mnet[n].url.path = "/link/pathway/" =>
      LET ids == LinkedGeneIds(mnet[n])
      IN /\ \A k \in 1..Len(ids) :
              /\ OrganismOf(ids[k]) = mcall.speciesId
              /\ \E line \in SucceededFindLines :
                   /\ StartsWith(line, mcall.speciesId \o ColonStr)
                   /\ Split(line, TabStr)[1] = ids[k]
         /\ \A k, l \in 1..Len(ids) : k # l => ids[k] # ids[l]

\* a link request for 'hsa:1' alone, after one find answer listed a mouse gene
\* and two find answers listed hsa:1
C21_Witness ==
  /\ mpc \in {"link", "done"}
  /\ Len(mnet) = 3
  /\ mnet[3].url.path = "/link/pathway/"
  /\ LinkedGeneIds(mnet[3]) = <<Hsa \o ColonStr \o IdA>>
  /\ FindLineMmu1 \in SucceededFindLines
  /\ \A i \in 1..Len(mfind) :
       FindLineHsa1 \in Range(Split(Trim(mfind[i].text), NlStr))

\* the positions of the link requests among the requests issued so far
LinkRequestPositions == {n \in 1..Len(mnet) : mnet[n].url.path = "/link/pathway/"}

\* C22: in mapGenesToPathwaysKegg a link request is issued only once every
\* find request has been answered, after all of them; when the find answers
\* resolve no gene id of the active species, no link request is issued and
\* the result is the empty set.
C22_LinkAfterEveryFind ==
  /\ \A n \in LinkRequestPositions :
       /\ mfind # <<>>
       /\ \A i \in 1..Len(mfind) : mfind[i].state = "resolved"
       /\ \A m \in 1..Len(mnet) : mnet[m].url.path = "/find/genes/" => m < n
       /\ ResolvedGeneIds # {}
  /\ (/\ mcall.fn = "kegg"
      /\ mfind # <<>>
      /\ \A i \in 1..Len(mfind) : mfind[i].state = "resolved"
      /\ ResolvedGeneIds = {})
       => /\ LinkRequestPositions = {}
          /\ MapDone("kegg")
          /\ mresult = SetResult({})

\* two find requests answered, one with a mouse gene and one with nothing:
\* no link request, the empty set
C22_Witness ==
  /\ MapDone("kegg")
  /\ Len(mfind) = 2
  /\ \A i \in 1..Len(mfind) : mfind[i].state = "resolved" /\ mfind[i].ok
  /\ FindLineMmu1 \in SucceededFindLines
  /\ ResolvedGeneIds = {}
  /\ Len(mnet) = 2
  /\ mresult = SetResult({})

\* the find requests that have not been answered yet
FindsInFlight == {i \in 1..Len(mfind) : mfind[i].state = "pending"}

\* C23: mapGenesToPathwaysKegg issues the find requests of all n identifiers
\* before it waits for an answer: in every state of a call with a species and
\* n > 0 identifiers, n find requests have been issued, one for each
\* identifier in order, whatever number of them has been answered; as long as
\* none has been answered, all n are in flight.
C23_AllFindsIssuedBeforeAnyAnswer ==
  (mcall.fn = "kegg" /\ mcall.speciesId # <<>> /\ Len(mcall.geneIds) > 0) =>
     /\ Len(FindRequestsIssued) = Len(mcall.geneIds)
     /\ \A i \in 1..Len(mcall.geneIds) : mnet[i] = KeggFindRequest(mcall.geneIds[i])
     /\ Len(mfind) = Len(mcall.geneIds)
     /\ (\A i \in 1..Len(mfind) : mfind[i].state # "resolved" /\ mfind[i].state # "rejected")
          => Cardinality(FindsInFlight) = Len(mcall.geneIds)

\* as many find requests in flight as the largest identifier list has elements
C23_Witness ==
  /\ mpc = "find"
  /\ Len(mcall.geneIds) = MaxGenes
  /\ Cardinality(FindsInFlight) = MaxGenes
  /\ Len(mnet) = MaxGenes

----------------------------------------------------------------------------
(* Claims about the Sidebar                                                *)

\* C1: highlightedPathways never holds the answer of a superseded mapping
\* call: once the answer computed for the current selection Y was stored, the
\* late answer of a call issued earlier for another selection X is discarded.
C1_LateResponseDiscarded == ~stale

\* the sources findHighlights has no mapper for
NoMapperSources == {"MetaCyc", "SMPDB", "PANTHER", "METACROP"}

\* the identifiers of a gene file, none without a file
GeneIdsOf(geneData) ==
  IF Truthy(geneData) THEN parseGeneIds(geneData.v) ELSE <<>>

\* a step in which the debounce timer fires
TimerFires == timer.kind = "armed" /\ timer'.kind = "none"

\* C11: for a source without a mapper (MetaCyc, SMPDB, PANTHER, METACROP) the
\* highlight effect never has a mapping call in flight, and when its timer
\* fires it stores the empty set, the value a mapper that found nothing
\* leaves, without a network call and without touching the error fields.
C11_NoMapperGivesEmptySet ==
  /\ [](\A i \in 1..Len(inflight) :
          inflight[i].kind = "mapping" =>
            inflight[i].pathwayDatabase \notin NoMapperSources)
  /\ [][(TimerFires /\ timer.pathwayDatabase \in NoMapperSources) =>
          /\ sb'.highlightedPathways = {}
          /\ inflight' = inflight
          /\ calls' = calls
          /\ sb'.speciesError = sb.speciesError
          /\ sb'.pathwayError = sb.pathwayError]_vars

\* METACROP with identifiers, a species and pathways, after the timer fired
C11_Witness ==
  /\ sb.pathwayDatabase = "METACROP"
  /\ Len(GeneIdsOf(sb.geneData)) > 0
  /\ sb.speciesId # NoSpeciesId
  /\ Len(sb.pathways) > 0
  /\ timer.kind = "none"
  /\ sb.highlightedPathways = {}
  /\ \A i \in 1..Len(inflight) : inflight[i].kind # "mapping"

\* the timer's closure holds the values of the render r
HoldsValuesOf(t, r) ==
  /\ t.geneData = r.geneData
  /\ t.pathways = r.pathways
  /\ t.speciesId = r.speciesId
  /\ t.pathwayDatabase = r.pathwayDatabase

\* the mapping calls among the calls in flight
MappingCalls(pending) == SelectSeq(pending, LAMBDA q : q.kind = "mapping")

\* a step that changes geneData, the pathway list, the species or the source
HighlightInputsChange ==
  \/ sb'.geneData # sb.geneData
  \/ sb'.pathways # sb.pathways
  \/ sb'.speciesId # sb.speciesId
  \/ sb'.pathwayDatabase # sb.pathwayDatabase

\* C12: debounce coalescing. A timer that has not fired always holds the
\* values of the last change; a change that arrives while a timer is pending
\* issues no mapping call and replaces that timer by one holding the new
\* values; a mapping call is only ever issued by a firing timer, one call per
\* firing, made with the values the component shows at that moment.
C12_DebounceCoalesces ==
  /\ [](timer.kind = "armed" => HoldsValuesOf(timer, sb))
  /\ [][(timer.kind = "armed" /\ HighlightInputsChange) =>
          /\ timer'.kind = "armed"
          /\ timer'.replaced
          /\ HoldsValuesOf(timer', sb')
          /\ MappingCalls(inflight') = MappingCalls(inflight)]_vars
  /\ [][Len(MappingCalls(inflight')) > Len(MappingCalls(inflight)) =>
          /\ TimerFires
          /\ inflight' = Append(inflight,
               MappingRequest(sb.pathwayDatabase, sb.speciesId, GeneIdsOf(sb.geneData)))]_vars

\* after a burst of changes on a source with a mapper: one timer is pending,
\* it replaced a pending one, it holds identifiers, a species and pathways,
\* and no mapping call was issued
C12_Witness ==
  /\ timer.kind = "armed"
  /\ timer.replaced
  /\ HasMapper(timer.pathwayDatabase)
  /\ Len(GeneIdsOf(timer.geneData)) > 0
  /\ timer.speciesId # NoSpeciesId
  /\ Len(timer.pathways) > 0
  /\ MappingCalls(inflight) = <<>>
  /\ sb.highlightedPathways = {}

\* a step that changes the selected entry of the database select
SourceChanges == sb'.pathwayDatabase # sb.pathwayDatabase

\* a step stores lists only as a whole: a list that changes becomes empty or
\* the result of one call that was in flight
StoresWholeResults ==
  /\ sb'.speciesList # sb.speciesList =>
       \/ sb'.speciesList = <<>>
       \/ \E i \in 1..Len(inflight) :
            /\ inflight[i].kind = "species"
            /\ sb'.speciesList = SpeciesOf(inflight[i].pathwayDatabase)
  /\ sb'.pathways # sb.pathways =>
       \/ sb'.pathways = <<>>
       \/ \E i \in 1..Len(inflight) :
            /\ inflight[i].kind = "pathways"
            /\ sb'.pathways = PathwaysOf(inflight[i].pathwayDatabase, inflight[i].speciesId)

\* C18 as stated: every change of the selected source clears the species list
\* and the pathway list and resets speciesId and pathwayId to empty, and a
\* stored list is always one whole fetch result.
C18_SourceChangeResetsSelection ==
  /\ [][SourceChanges =>
          /\ sb'.speciesList = <<>>
          /\ sb'.pathways = <<>>
          /\ sb'.speciesId = NoSpeciesId
          /\ sb'.pathwayId = NoPathwayId]_vars
  /\ [][StoresWholeResults]_vars

\* C18 amended: every change of the selected entry clears the species list
\* and the pathway list; a change to one of the catalog sources (any entry but
\* 'Custom SBGN File') also resets speciesId and pathwayId to empty; a stored
\* list is always one whole fetch result.
C18_CatalogSourceChangeInvalidates ==
  /\ [][SourceChanges =>
          /\ sb'.speciesList = <<>>
          /\ sb'.pathways = <<>>
          /\ sb'.pathwayDatabase # Custom =>
               (sb'.speciesId = NoSpeciesId /\ sb'.pathwayId = NoPathwayId)]_vars
  /\ [][StoresWholeResults]_vars

\* KEGG was selected while a Reactome species was selected (the pathways
\* effect ran with that species): lists and selection are empty and
\* fetchSpecies('KEGG') is awaited
C18_Witness ==
  /\ sb.pathwayDatabase = "KEGG"
  /\ sb.speciesList = <<>>
  /\ sb.pathways = <<>>
  /\ sb.speciesId = NoSpeciesId
  /\ sb.pathwayId = NoPathwayId
  /\ \E i \in 1..Len(inflight) : inflight[i] = SpeciesRequest("KEGG")
  /\ \E i \in 1..Len(inflight) :
       inflight[i] = PathwaysRequest("KEGG", SpeciesId("Reactome", 1))

\* the species ids the Sidebar can hold: those of the listed species of every
\* catalog source it is exercised with
SidebarSpeciesIds ==
  {SpeciesId(database, n) : database \in SidebarDatabases \ {Custom}, n \in 1..2}

\* the records of the answer fetchPathways('SMPDB', s) was given
SmpdbAnswerRecords == JsonRecords(fresp)

\* C19: the Sidebar's pathway list is empty or exactly the result of one
\* fetchPathways(source, species) call, so its records all belong to one
\* (source, species) pair; and every record fetchPathways('SMPDB', s) returns
\* is a record of the answer whose species_taxonomy_id is s.
C19_PathwayListOfOneSpecies ==
  /\ \/ sb.pathways = <<>>
     \/ \E database \in SidebarDatabases \ {Custom}, speciesId \in SidebarSpeciesIds :
          sb.pathways = PathwaysOf(database, speciesId)
  /\ \A i, j \in 1..Len(sb.pathways) :
       /\ sb.pathways[i].id.database = sb.pathways[j].id.database
       /\ sb.pathways[i].id.speciesId = sb.pathways[j].id.speciesId
  /\ (FetchDone("pathways") /\ fcall.database = "SMPDB" /\ fresult.kind = "list")
       => \A k \in 1..Len(fresult.val) :
            \E i \in 1..Len(SmpdbAnswerRecords) :
              /\ SmpdbAnswerRecords[i] # Null
              /\ SmpdbAnswerRecords[i].species_taxonomy_id = Str(fcall.speciesId)
              /\ SmpdbAnswerRecords[i].smp_id = Str(fresult.val[k].id)
              /\ SmpdbAnswerRecords[i].name = Str(fresult.val[k].displayName)

\* two fetchPathways calls were in flight, for '48887' and for the first
\* listed species; both settled and the list shown is the second call's result
C19_Witness ==
  /\ sb.pathwayDatabase = "Reactome"
  /\ sb.speciesId = SpeciesId("Reactome", 1)
  /\ sb.pathways = PathwaysOf("Reactome", SpeciesId("Reactome", 1))
  /\ ~sb.pathwaysLoading
  /\ \A i \in 1..Len(inflight) : inflight[i].kind # "pathways"
  /\ calls = 3

\* the fetchPathways calls in flight
PathwayCallsInFlight == {i \in 1..Len(inflight) : inflight[i].kind = "pathways"}

\* C25: species ids never cross sources: every fetchPathways(source,
\* speciesId) call of the Sidebar carries a species id of the source passed in
\* the call; right after the source selection changes, no pathway request is
\* made with the previous source's species id.
C25_SpeciesIdOfTheCallsSource ==
  \A i \in PathwayCallsInFlight :
    inflight[i].speciesId.database = inflight[i].pathwayDatabase

\* the (source, species) a pathway record was fetched for
FetchedFor(pathway) == <<pathway.id.database, pathway.id.speciesId>>

\* C26: no stale catalog overwrite: when the species selection changed while a
\* fetchPathways call for the previous selection was in flight, then, once no
\* call is in flight any more, the pathway list holds the answer of the call
\* for the currently selected (source, species), whatever the order of the
\* answers: no record fetched for another species of the source is shown.
C26_NoStaleCatalogOverwrite ==
  (inflight = <<>> /\ sb.pathwayDatabase # Custom /\ sb.speciesId # NoSpeciesId) =>
     \A i \in 1..Len(sb.pathways) :
       FetchedFor(sb.pathways[i]) = <<sb.pathwayDatabase, sb.speciesId>>

\* a fetchPathways call for the selection the component shows is in flight
CurrentPathwayCallInFlight ==
  \E i \in PathwayCallsInFlight :
    /\ inflight[i].pathwayDatabase = sb.pathwayDatabase
    /\ inflight[i].speciesId = sb.speciesId

\* C27: loading flag consistency: pathwaysLoading is true in every state in
\* which a fetchPathways call for the currently selected (source, species) is
\* in flight, and false once no pathway call is in flight; the completion of
\* an older, superseded call does not clear the flag while the newer call is
\* pending.
C27_LoadingFlagConsistent ==
  /\ CurrentPathwayCallInFlight => sb.pathwaysLoading
  /\ PathwayCallsInFlight = {} => ~sb.pathwaysLoading

\* a fetchSpecies call failed and the source selection has not changed since:
\* the species effect clears speciesError when it runs for a catalog source
SpeciesFetchFailed == sb.speciesError # Null /\ sb.pathwayDatabase # Custom

\* C28: after a failed species fetch the primary flow is blocked: speciesError
\* is set, speciesLoading is false again, the species list and the pathway
\* list stay empty and speciesId stays empty, and no fetchPathways call and no
\* mapping request is issued until the source selection changes.
C28_FlowBlockedAfterSpeciesFailure ==
  /\ [](SpeciesFetchFailed =>
          /\ ~sb.speciesLoading
          /\ sb.speciesList = <<>>
          /\ sb.pathways = <<>>
          /\ sb.speciesId = NoSpeciesId)
  /\ [][(SpeciesFetchFailed /\ sb'.pathwayDatabase = sb.pathwayDatabase)
          => calls' = calls]_vars

\* a is b without some of its elements, the others in b's order
RECURSIVE IsSubsequence(_, _)
IsSubsequence(a, b) ==
  IF a = <<>> THEN TRUE
  ELSE IF b = <<>> THEN FALSE
  ELSE IF Head(a) = Head(b) THEN IsSubsequence(Tail(a), Tail(b))
  ELSE IsSubsequence(a, Tail(b))

\* the filtered list and the two groups the component renders
ShownFiltered == filteredPathways(sb.pathways, sb.pathwaySearch)
ShownGroups == groupedPathways(ShownFiltered, sb.highlightedPathways)

\* C29: annotation partitions the pathway list: for every pathway list, search
\* filter and set of matches, groupedPathways.highlighted and .other are
\* disjoint, together they are exactly the filtered list, highlighted holds
\* exactly the filtered pathways whose id is in the set of matches, and each
\* group keeps the relative order of the fetched list.
C29_AnnotationPartitions ==
  LET highlighted == ShownGroups.highlighted
      other == ShownGroups.other
  IN /\ Range(highlighted) \cap Range(other) = {}
     /\ Range(highlighted) \cup Range(other) = Range(ShownFiltered)
     /\ Len(highlighted) + Len(other) = Len(ShownFiltered)
     /\ \A p \in Range(ShownFiltered) :
          p \in Range(highlighted) <=> p.id \in sb.highlightedPathways
     /\ IsSubsequence(highlighted, sb.pathways)
     /\ IsSubsequence(other, sb.pathways)

\* 'a', 'Ab' and 'b' fetched, the search 'B' keeps 'Ab' and 'b', the mapper
\* matched 'a' and 'b': one pathway in each group
C29_Witness ==
  /\ Len(sb.pathways) = 3
  /\ sb.pathwaySearch = NameUpperB
  /\ Len(ShownFiltered) = 2
  /\ Cardinality(sb.highlightedPathways) = 2
  /\ Len(ShownGroups.highlighted) = 1
  /\ Len(ShownGroups.other) = 1
  /\ ShownGroups.highlighted[1].displayName = NameLowerB
  /\ ShownGroups.other[1].displayName = NameUpperAb

\* a step of handleGenerate from the click: no render call is pending before it
GenerateClicked == app.render = NoRender /\ app' # app

\* a step in which the pending render call settles
RenderSettles == app.render.kind = "pending" /\ app'.render = NoRender

\* C30: generate protocol of App.handleGenerate: when geneData is missing or
\* pathwayId is empty, an error is set, the renderer is not called and
\* isLoading stays false; otherwise isLoading is true while the render call is
\* pending and false after it settles, with exactly one of pathwaySvg
\* (success) and error (failure) set.
C30_GenerateProtocol ==
  /\ [](app.isLoading <=> app.render.kind = "pending")
  /\ [][/\ (GenerateClicked /\ (~Truthy(sb.geneData) \/ sb.pathwayId = NoPathwayId))
            => /\ app'.error # Null
               /\ app'.render = NoRender
               /\ ~app'.isLoading
        /\ (GenerateClicked /\ Truthy(sb.geneData) /\ sb.pathwayId # NoPathwayId)
            => /\ app'.render = RenderCall(sb.pathwayId)
               /\ app'.isLoading
        /\ RenderSettles
            => /\ ~app'.isLoading
               /\ (app'.pathwaySvg # Null) # (app'.error # Null)]_vars

\* the gene file with two rows of gene C is loaded, a pathway is selected, the
\* renderer answered '<svg/>': the map is shown, no error, not loading
C30_Witness ==
  /\ sb.geneData = Str(GeneFileC)
  /\ sb.pathwayId # NoPathwayId
  /\ app.render = NoRender
  /\ ~app.isLoading
  /\ app.pathwaySvg = Str(SvgText)
  /\ app.error = Null
  /\ Len(app.parsedGeneData) = 1

====
